---- MODULE Spec2Model ----
(***************************************************************************)
(* A model of GitSavvy's git invocation engine (core/git_command.py):      *)
(*   - stream_stdout_and_err / read_linewise: two reader threads and one   *)
(*     consumer draining a child's stdout and stderr through one deque;    *)
(*   - _GitCommand.git: one invocation, from argument assembly to the      *)
(*     returned text or the raised error;                                  *)
(*   - strict_decode / lax_decode / try_decode: the encoding cascade.      *)
(*   - communicate_and_log: the stdin write, the drain and the release of  *)
(*     the pipes and the process;                                          *)
(*   - _GitCommand.git_binary_path: the resolution of the git binary and   *)
(*     the module globals git_path and error_message_displayed;            *)
(*   - search_for_git, _find_git_toplevel, git_dir: the lookup of the      *)
(*     repository and its git directory, with the module's caches;         *)
(* Each part has its own specification; the variables of the other parts   *)
(* stay at their idle values.                                              *)
(***************************************************************************)
EXTENDS Integers, Sequences, FiniteSets, TLC

VARIABLES
    \* ---- stream_stdout_and_err ----
    script,      \* what the child still has to write: a sequence of stream names
    written,     \* stream -> number of lines the child has written to it
    childPc,     \* "run" | "exited": the child closes its pipe ends when it exits
    pipe,        \* stream -> lines in the OS pipe (bounded by PipeCap)
    future,      \* stream -> state of out_f / err_f
    held,        \* stream -> the line readline returned, not yet passed to kont
    container,   \* the deque shared by the two readers and the consumer
    pc,          \* the consumer's position in stream_stdout_and_err
    delay,       \* position in chain([1, 2, 4, 8, 15, 30], repeat(50))
    yielded,     \* what the generator has yielded so far
    yfIdx,       \* position of `yield from container`
    procClosed,  \* Popen.__exit__ has closed the pipes and waited
    sleeps,      \* the consumer's time.sleep calls: the last one, how many, which drain
    \* ---- strict_decode / lax_decode ----
    decIn,       \* the inputs of one decode call
    decPc,       \* "idle" | "called"
    decOut,      \* the outcome of the call
    \* ---- _GitCommand.git ----
    inp,         \* the arguments and settings of one invocation of git()
    world,       \* what the environment answers during the invocation
    gpc,         \* position in git()
    g,           \* the locals and observable effects of git()
    \* ---- communicate_and_log ----
    calPc,       \* position in communicate_and_log
    calStdin,    \* its stdin argument: None or bytes
    stdinClosed, \* proc.stdin.close() was called by communicate_and_log
    pipesClosed, \* Popen.__exit__ has closed the pipes, on the way to wait()
    stdinLeft,   \* chunks of stdin that proc.stdin.write/flush has yet to write
    stdinPipe,   \* chunks in the child's stdin pipe (bounded by PipeCap)
    \* ---- _GitCommand.git_binary_path ----
    git_path,    \* the module's global git_path
    error_message_displayed,  \* the module's global of that name
    binT,        \* thread -> position and locals of its call of git_binary_path
    binIo,       \* what the calls did: dialogs shown, probes, outcomes
    binCalls,    \* number of calls started
    binWorld,    \* what the settings, PATH and `git --version` may answer
    \* ---- search_for_git, _find_git_toplevel, git_dir ----
    fs,          \* the filesystem: the .git entries, HOME, the .git file
    repo_paths,  \* the module's global repo_paths: folder -> repository root
    git_dirs,    \* the module's global git_dirs: repository root -> git directory
    lookups,     \* the calls made so far, with what they returned and probed
    \* ---- utils.kill_proc ----
    kill,        \* the call of kill_proc: platform, signals sent, how it ended
    \* ---- WithInputHandlers ----
    defaults,    \* the command's `defaults`: argument name -> what its handler does
    dispatches,  \* the run_command calls Sublime has yet to deliver to run_
    konts,       \* the continuations handlers hold to call later, with their args
    runs,        \* what every run_ so far did
    kontCalls,   \* the continuation calls made after their handler had returned
    \* ---- gs_commit_view_do_commit ----
    view,        \* the commit view: its settings, its text, whether it has a window
    enqueued,      \* the run_impl calls enqueued on the worker, not yet started
    cpc,         \* the worker's position in run_impl
    cio,         \* what run_impl did: git calls, status messages, closes, refreshes
    \* ---- PushBase.do_push ----
    pushCall,    \* the do_push call the worker runs: its position and arguments
    pushLog,     \* what the do_push calls did: dialogs, git calls, messages, refreshes
    \* ---- utils.Cache ----
    lru,       \* the Cache: its maxsize and its entries, oldest first
    used         \* when each key was last read or written, and the last operation

drainVars == <<script, written, childPc, pipe, future, held, container, pc,
               delay, yielded, yfIdx, procClosed, sleeps>>
decVars == <<decIn, decPc, decOut>>
gitVars == <<inp, world, gpc, g>>
calVars == <<calPc, calStdin, stdinClosed, pipesClosed, stdinLeft, stdinPipe>>
binVars == <<git_path, error_message_displayed, binT, binIo, binCalls, binWorld>>
repoVars == <<fs, repo_paths, git_dirs, lookups>>
\* utils.kill_proc, utils.Cache and the commands
ihVars == <<defaults, dispatches, konts, runs, kontCalls>>
commitVars == <<view, enqueued, cpc, cio>>
pushVars == <<pushCall, pushLog>>
cacheVars == <<lru, used>>
cmdVars == <<kill, ihVars, commitVars, pushVars, cacheVars>>
vars == <<drainVars, decVars, gitVars, calVars, binVars, repoVars, cmdVars>>

\* What the actions of one part leave unchanged: the variables of the others.
notDrain == <<decVars, gitVars, calVars, binVars, repoVars, cmdVars>>
notDec == <<drainVars, gitVars, calVars, binVars, repoVars, cmdVars>>
notGit == <<drainVars, decVars, calVars, binVars, repoVars, cmdVars>>
notCal == <<decVars, gitVars, binVars, repoVars, cmdVars>>
notBin == <<drainVars, decVars, gitVars, calVars, repoVars, cmdVars>>
notRepo == <<drainVars, decVars, gitVars, calVars, binVars, cmdVars>>

notCmd == <<drainVars, decVars, gitVars, calVars, binVars, repoVars>>

\* Bounds of the model.
MaxWrites == 4
PipeCap == 1
MaxBytes == 3
MaxArgs == 2
MaxCalls == 3
MaxLookups == 3
MaxInput == 2
MaxEmpties == 7
MaxDrains == 2
MaxRuns == 3
MaxKontCalls == 2
MaxCommits == 2
MaxPushes == 2
MaxSize == 2
MaxUses == 4

(***************************************************************************)
(* stream_stdout_and_err                                                   *)
(***************************************************************************)
Streams == {"stdout", "stderr"}

\* class Out(bytes), class Err(bytes)
Out(line) == [tag |-> "Out", line |-> line]
Err(line) == [tag |-> "Err", line |-> line]

\* The k-th line a stream carries.
Line(s, k) == [src |-> s, k |-> k]

RECURSIVE SeqsUpTo(_, _)
SeqsUpTo(S, n) ==
    IF n = 0 THEN {<<>>}
    ELSE LET shorter == SeqsUpTo(S, n - 1)
         IN shorter \cup {Append(q, x) : q \in {r \in shorter : Len(r) = n - 1}, x \in S}

\* chain([1, 2, 4, 8, 15, 30], repeat(50))
DelaySchedule == <<1, 2, 4, 8, 15, 30>>
SteadyDelay == 50
\* A fixed sleep in place of the schedule.
DelayAtSteady(i) == SteadyDelay

DelayAt(i) == IF i <= Len(DelaySchedule) THEN DelaySchedule[i] ELSE SteadyDelay
NextDelayPos(i) == IF i <= Len(DelaySchedule) THEN i + 1 ELSE i

\* time.sleep(next(delay) / 1000): the milliseconds of the last sleep of this
\* drain, the number of sleeps of this drain (counted up to MaxEmpties), the
\* number of the drain, and a mark that every sleep turns over.
Sleeps0 == [last |-> 0, count |-> 0, drain |-> 1, tick |-> FALSE]
Slept(log, ms) ==
    [log EXCEPT !.last = ms, !.count = IF @ < MaxEmpties THEN @ + 1 ELSE @,
                !.tick = ~@]

\* No call of kill_proc, no command and no cache in this part of the model.
KillIdle == kill = <<>>
IhIdle ==
    /\ defaults = <<>>
    /\ dispatches = <<>>
    /\ konts = {}
    /\ runs = <<>>
    /\ kontCalls = <<>>
CommitIdle ==
    /\ view = <<>>
    /\ enqueued = <<>>
    /\ cpc = "idle"
    /\ cio = <<>>
PushIdle ==
    /\ pushCall = <<>>
    /\ pushLog = <<>>
CacheIdle ==
    /\ lru = <<>>
    /\ used = <<>>
CmdIdle == KillIdle /\ IhIdle /\ CommitIdle /\ PushIdle /\ CacheIdle

DrainIdle ==
    /\ script = <<>>
    /\ written = [s \in Streams |-> 0]
    /\ childPc = "exited"
    /\ pipe = [s \in Streams |-> <<>>]
    /\ future = [s \in Streams |-> "done"]
    /\ held = [s \in Streams |-> Line(s, 0)]
    /\ container = <<>>
    /\ pc = "done"
    /\ delay = 1
    /\ yielded = <<>>
    /\ yfIdx = 0
    /\ procClosed = FALSE
    /\ sleeps = Sleeps0

\* The state when stream_stdout_and_err has started both readers.
DrainInit ==
    /\ script \in SeqsUpTo(Streams, MaxWrites)
    /\ written = [s \in Streams |-> 0]
    /\ childPc = "run"
    /\ pipe = [s \in Streams |-> <<>>]
    /\ future = [s \in Streams |-> "running"]
    /\ held = [s \in Streams |-> Line(s, 0)]
    /\ container = <<>>
    /\ pc = "while_out"
    /\ delay = 1
    /\ yielded = <<>>
    /\ yfIdx = 0
    /\ procClosed = FALSE
    /\ sleeps = Sleeps0

\* ---- the child ----
\* The child writes its next line; the write blocks while that pipe is full
\* (a write to a pipe whose read end is closed is ChildBrokenPipe).
ChildWrite ==
    /\ childPc = "run"
    /\ script # <<>>
    /\ Head(script) \in Streams
    /\ ~pipesClosed
    /\ LET s == Head(script)
       IN /\ Len(pipe[s]) < PipeCap
          /\ pipe' = [pipe EXCEPT ![s] = Append(@, Line(s, written[s] + 1))]
          /\ written' = [written EXCEPT ![s] = @ + 1]
    /\ script' = Tail(script)
    /\ UNCHANGED <<childPc, future, held, container, pc, delay, yielded, yfIdx,
                   procClosed, sleeps, notDrain>>

\* The child has written everything and exits, closing its pipe ends.
ChildExit ==
    /\ childPc = "run"
    /\ script = <<>>
    /\ childPc' = "exited"
    /\ UNCHANGED <<script, written, pipe, future, held, container, pc, delay,
                   yielded, yfIdx, procClosed, sleeps, notDrain>>

\* ---- read_linewise, run as a future ----
running(s) == future[s] \in {"running", "kont"}

\* fh.readline() returns a line.
read_linewise_readline(s) ==
    /\ future[s] = "running"
    /\ pipe[s] # <<>>
    /\ held' = [held EXCEPT ![s] = Head(pipe[s])]
    /\ pipe' = [pipe EXCEPT ![s] = Tail(@)]
    /\ future' = [future EXCEPT ![s] = "kont"]
    /\ UNCHANGED <<script, written, childPc, container, pc, delay, yielded,
                   yfIdx, procClosed, sleeps, notDrain>>

\* lambda line: append(Out(line)) / lambda line: append(Err(line))
TagOf(s, line) == IF s = "stdout" THEN Out(line) ELSE Err(line)

read_linewise_kont(s) ==
    /\ future[s] = "kont"
    /\ container' = Append(container, TagOf(s, held[s]))
    /\ future' = [future EXCEPT ![s] = "running"]
    /\ UNCHANGED <<script, written, childPc, pipe, held, pc, delay, yielded,
                   yfIdx, procClosed, sleeps, notDrain>>

\* fh.readline() returns b'' at end-of-file: the loop ends, the future is done.
read_linewise_eof(s) ==
    /\ future[s] = "running"
    /\ pipe[s] = <<>>
    /\ childPc = "exited"
    /\ future' = [future EXCEPT ![s] = "done"]
    /\ UNCHANGED <<script, written, childPc, pipe, held, container, pc, delay,
                   yielded, yfIdx, procClosed, sleeps, notDrain>>

\* fh.readline() raises (an I/O error): the future holds the exception.
read_linewise_raise(s) ==
    /\ future[s] = "running"
    /\ future' = [future EXCEPT ![s] = "raised"]
    /\ UNCHANGED <<script, written, childPc, pipe, held, container, pc, delay,
                   yielded, yfIdx, procClosed, sleeps, notDrain>>

\* A draining that reads stderr only once stdout has reached end-of-file.
read_linewise_sequential(s) ==
    /\ s = "stderr" => future["stdout"] = "done"
    /\ \/ read_linewise_readline(s)
       \/ read_linewise_kont(s)
       \/ read_linewise_eof(s)

\* read_linewise as run by run_as_future, without its failure
read_linewise(s) ==
    \/ read_linewise_readline(s)
    \/ read_linewise_kont(s)
    \/ read_linewise_eof(s)

\* ---- the consumer: the generator body of stream_stdout_and_err ----
\* while out_f.running() or err_f.running(): the left operand
stream_while_out ==
    /\ pc = "while_out"
    /\ pc' = IF running("stdout") THEN "pop" ELSE "while_err"
    /\ UNCHANGED <<script, written, childPc, pipe, future, held, container,
                   delay, yielded, yfIdx, procClosed, sleeps, notDrain>>

\* ... the right operand; when both are false the `with proc` block is left
stream_while_err ==
    /\ pc = "while_err"
    /\ pc' = IF running("stderr") THEN "pop" ELSE "exit_with"
    /\ UNCHANGED <<script, written, childPc, pipe, future, held, container,
                   delay, yielded, yfIdx, procClosed, sleeps, notDrain>>

\* try: yield container.popleft()  except IndexError: time.sleep(next(delay) / 1000)
stream_pop ==
    /\ pc = "pop"
    /\ IF container # <<>>
       THEN /\ yielded' = Append(yielded, Head(container))
            /\ container' = Tail(container)
            /\ UNCHANGED <<delay, sleeps>>
       ELSE /\ delay' = NextDelayPos(delay)
            /\ sleeps' = Slept(sleeps, DelayAt(delay))
            /\ UNCHANGED <<yielded, container>>
    /\ pc' = "while_out"
    /\ UNCHANGED <<script, written, childPc, pipe, future, held, yfIdx, procClosed, notDrain>>

\* Popen.__exit__: close the pipes, then wait() for the child.
stream_exit_with ==
    /\ pc = "exit_with"
    /\ childPc = "exited"
    /\ procClosed' = TRUE
    /\ pc' = "result_out"
    /\ UNCHANGED <<script, written, childPc, pipe, future, held, container,
                   delay, yielded, yfIdx, sleeps, notDrain>>

\* out_f.result()
stream_result_out ==
    /\ pc = "result_out"
    /\ future["stdout"] \in {"done", "raised"}
    /\ pc' = IF future["stdout"] = "raised" THEN "raised" ELSE "result_err"
    /\ UNCHANGED <<script, written, childPc, pipe, future, held, container,
                   delay, yielded, yfIdx, procClosed, sleeps, notDrain>>

\* err_f.result()
stream_result_err ==
    /\ pc = "result_err"
    /\ future["stderr"] \in {"done", "raised"}
    /\ pc' = IF future["stderr"] = "raised" THEN "raised" ELSE "yield_from"
    /\ UNCHANGED <<script, written, childPc, pipe, future, held, container,
                   delay, yielded, yfIdx, procClosed, sleeps, notDrain>>

\* A generator that ends without yielding what is left in the deque.
stream_yield_from_dropped ==
    /\ pc = "yield_from"
    /\ pc' = "done"
    /\ UNCHANGED <<script, written, childPc, pipe, future, held, container,
                   delay, yielded, yfIdx, procClosed, sleeps, notDrain>>

\* yield from container: iterates over what is left, without popping
stream_yield_from ==
    /\ pc = "yield_from"
    /\ IF yfIdx < Len(container)
       THEN /\ yielded' = Append(yielded, container[yfIdx + 1])
            /\ yfIdx' = yfIdx + 1
            /\ UNCHANGED pc
       ELSE /\ pc' = "done"
            /\ UNCHANGED <<yielded, yfIdx>>
    /\ UNCHANGED <<script, written, childPc, pipe, future, held, container,
                   delay, procClosed, sleeps, notDrain>>

stream_stdout_and_err ==
    \/ stream_while_out
    \/ stream_while_err
    \/ stream_pop
    \/ stream_exit_with
    \/ stream_result_out
    \/ stream_result_err
    \/ stream_yield_from

(***************************************************************************)
(* The encoding cascade: get_encoding_candidates, try_decode,              *)
(* strict_decode, lax_decode, ensure_decoded                               *)
(***************************************************************************)
\* The byte values the inputs are made of: 'A', and 0x81, 0xA9, 0xC3, 0xE9
\* (a UTF-8 continuation byte that cp1252 leaves undefined, a continuation
\* byte, a two-byte lead and a three-byte lead).
ByteVals == {65, 129, 169, 195, 233}
ByteStrings == SeqsUpTo(ByteVals, MaxBytes)

\* The encodings Python knows, as far as the model goes, and the values
\* locale.getpreferredencoding() and the fallback_encoding setting take.
Codecs == {"utf-8", "ascii", "latin-1", "cp1252"}
Locales == Codecs
Fallbacks == Codecs \cup {"no-such-codec"}

ReplacementChar == 65533

Decoded(text) == [ok |-> TRUE, text |-> text, exc |-> "", encoding |-> ""]
Raised(exc, encoding) == [ok |-> FALSE, text |-> <<>>, exc |-> exc, encoding |-> encoding]

IsContinuation(b) == b >= 128 /\ b <= 191

\* The number of bytes of the UTF-8 sequence that starts b, 0 when b does not
\* start with a complete well-formed sequence (sequences of up to three bytes;
\* ByteVals holds no four-byte lead).
Utf8SeqLen(b) ==
    IF b = <<>> THEN 0
    ELSE IF b[1] < 128 THEN 1
    ELSE IF b[1] >= 194 /\ b[1] <= 223
         THEN IF Len(b) >= 2 /\ IsContinuation(b[2]) THEN 2 ELSE 0
    ELSE IF b[1] >= 225 /\ b[1] <= 236
         THEN IF Len(b) >= 3 /\ IsContinuation(b[2]) /\ IsContinuation(b[3]) THEN 3 ELSE 0
    ELSE 0

Utf8CodePoint(b, n) ==
    IF n = 1 THEN b[1]
    ELSE IF n = 2 THEN (b[1] - 192) * 64 + (b[2] - 128)
    ELSE (b[1] - 224) * 4096 + (b[2] - 128) * 64 + (b[3] - 128)

\* The bytes an ill-formed sequence takes with it when it is replaced: the
\* lead and the continuation bytes that could still belong to it.
Utf8BadLen(b) ==
    IF b[1] >= 225 /\ b[1] <= 236 /\ Len(b) >= 2 /\ IsContinuation(b[2]) THEN 2 ELSE 1

Drop(b, n) == SubSeq(b, n + 1, Len(b))

\* bytes.decode("utf-8")
RECURSIVE Utf8Strict(_)
Utf8Strict(b) ==
    IF b = <<>> THEN Decoded(<<>>)
    ELSE LET n == Utf8SeqLen(b)
         IN IF n = 0 THEN Raised("UnicodeDecodeError", "utf-8")
            ELSE LET rest == Utf8Strict(Drop(b, n))
                 IN IF rest.ok THEN Decoded(<<Utf8CodePoint(b, n)>> \o rest.text)
                    ELSE rest

\* bytes.decode("utf-8", "replace")
RECURSIVE Utf8Replace(_)
Utf8Replace(b) ==
    IF b = <<>> THEN <<>>
    ELSE LET n == Utf8SeqLen(b)
         IN IF n = 0 THEN <<ReplacementChar>> \o Utf8Replace(Drop(b, Utf8BadLen(b)))
            ELSE <<Utf8CodePoint(b, n)>> \o Utf8Replace(Drop(b, n))

\* The single-byte codecs: the bytes the codec has no character for. Every
\* other byte of ByteVals decodes to the code point of the same number.
Undecodable(encoding) ==
    IF encoding = "ascii" THEN {v \in ByteVals : v >= 128}
    ELSE IF encoding = "cp1252" THEN {v \in ByteVals : v = 129}
    ELSE {}

\* bytes.decode(encoding)
decode(input, encoding) ==
    IF input = <<>> THEN Decoded(<<>>)
    ELSE IF encoding \notin Codecs THEN Raised("LookupError", encoding)
    ELSE IF encoding = "utf-8" THEN Utf8Strict(input)
    ELSE IF \E i \in 1..Len(input) : input[i] \in Undecodable(encoding)
         THEN Raised("UnicodeDecodeError", encoding)
    ELSE Decoded(input)

get_encoding_candidates(locale, fallback_encoding) ==
    <<"utf-8", locale, fallback_encoding>>

\* A cascade that gives up at the first candidate that fails.
try_decode_first_only(input, encodings, n) ==
    IF n > Len(encodings) THEN Raised("AssertionError", "")
    ELSE decode(input, encodings[n])

\* try_decode: the loop from its n-th candidate on. Only UnicodeDecodeError is
\* caught, and re-raised when the candidate is the last one.
RECURSIVE try_decode(_, _, _)
try_decode(input, encodings, n) ==
    IF n > Len(encodings) THEN Raised("AssertionError", "")
    ELSE LET r == decode(input, encodings[n])
         IN IF r.ok THEN r
            ELSE IF r.exc = "UnicodeDecodeError"
                 THEN IF n = Len(encodings) THEN r
                      ELSE try_decode(input, encodings, n + 1)
            ELSE r

strict_decode(input, locale, fallback_encoding) ==
    try_decode(input, get_encoding_candidates(locale, fallback_encoding), 1)

lax_decode(input, locale, fallback_encoding) ==
    LET r == strict_decode(input, locale, fallback_encoding)
    IN IF ~r.ok /\ r.exc = "UnicodeDecodeError" THEN Decoded(Utf8Replace(input))
       ELSE r

\* ensure_decoded on bytes (a str is returned as it is)
ensure_decoded(input, locale, fallback_encoding) ==
    lax_decode(input, locale, fallback_encoding)

DecInit ==
    /\ decIn \in [input : ByteStrings, locale : Locales, fallback_encoding : Fallbacks]
    /\ decPc = "idle"
    /\ decOut = <<>>

CallStrictDecode ==
    /\ decPc = "idle"
    /\ decPc' = "strict_decode"
    /\ decOut' = strict_decode(decIn.input, decIn.locale, decIn.fallback_encoding)
    /\ UNCHANGED <<decIn, notDec>>

CallLaxDecode ==
    /\ decPc = "idle"
    /\ decPc' = "lax_decode"
    /\ decOut' = lax_decode(decIn.input, decIn.locale, decIn.fallback_encoding)
    /\ UNCHANGED <<decIn, notDec>>

CallEnsureDecoded ==
    /\ decPc = "idle"
    /\ decPc' = "ensure_decoded"
    /\ decOut' = ensure_decoded(decIn.input, decIn.locale, decIn.fallback_encoding)
    /\ UNCHANGED <<decIn, notDec>>

DecNext ==
    \/ CallStrictDecode
    \/ CallLaxDecode
    \/ CallEnsureDecoded

(***************************************************************************)
(* _GitCommand.git                                                         *)
(***************************************************************************)
\* Python's None among strings; an optional value of another type is a
\* sequence of no or one element.
None == "None"
Absent == <<>>
Some(x) == <<x>>
Truthy(s) == s # None /\ s # ""

EmptyMap == [k \in {} |-> ""]
Get(map, key, default) == IF key \in DOMAIN map THEN map[key] ELSE default

Cmds == {"commit", "push"}
ArgStrings == {"-a", "-b"}

\* The flags of the settings: one setting with flags for both subcommands,
\* one with none.
FlagSettings ==
    { [global_pre_flags |-> ("commit" :> <<"-c", "core.x=1">>),
       global_flags |-> ("commit" :> <<"--no-verify">>) @@ ("push" :> <<"--porcelain">>)],
      [global_pre_flags |-> EmptyMap, global_flags |-> EmptyMap] }

\* The environment layers: each defines a subset of EnvNames, every layer
\* with a value of its own.
EnvNames == {"GIT_EDITOR"}
Layer(value) == {[k \in S |-> value] : S \in SUBSET EnvNames}
Undefined == "<undefined>"

\* filter_ (core/fns.py): keeps the arguments that are not None, in order.
filter_(args) == SelectSeq(args, LAMBDA a : a # None)

\* Flags put after the subcommand's arguments and pre-flags after the
\* subcommand.
add_global_flags_misplaced(settings, git_cmd, args) ==
    <<git_cmd>> \o Get(settings.global_pre_flags, git_cmd, <<>>)
        \o args \o Get(settings.global_flags, git_cmd, <<>>)

\* _add_global_flags
add_global_flags(settings, git_cmd, args) ==
    LET global_pre_flags == Get(settings.global_pre_flags, git_cmd, <<>>)
        global_flags == Get(settings.global_flags, git_cmd, <<>>)
    IN global_pre_flags \o <<git_cmd>> \o global_flags \o args

\* A ChainMap that looks the inherited environment up first.
ChainMapInherited(custom_environ, settings_env, os_environ) ==
    << os_environ,
       IF settings_env = Absent THEN EmptyMap ELSE settings_env[1],
       IF custom_environ = Absent THEN EmptyMap ELSE custom_environ[1] >>

\* ChainMap(custom_environ or {}, self.savvy_settings.get("env") or {}, os.environ)
ChainMap(custom_environ, settings_env, os_environ) ==
    << IF custom_environ = Absent THEN EmptyMap ELSE custom_environ[1],
       IF settings_env = Absent THEN EmptyMap ELSE settings_env[1],
       os_environ >>

\* ChainMap.__getitem__: the first map that holds the key answers.
RECURSIVE ChainMapGet(_, _, _)
ChainMapGet(maps, key, i) ==
    IF i > Len(maps) THEN Undefined
    ELSE IF key \in DOMAIN maps[i] THEN maps[i][key]
    ELSE ChainMapGet(maps, key, i + 1)

\* The values a local holding None, bytes or str takes.
NoneVal == [type |-> "None", v |-> <<>>]
BytesVal(b) == [type |-> "bytes", v |-> b]
StrVal(t) == [type |-> "str", v |-> t]

\* The arguments of a message's format string.
Lit(s) == [kind |-> "literal", lit |-> s, num |-> 0, text |-> <<>>, argv |-> <<>>]
Txt(t) == [kind |-> "text", lit |-> "", num |-> 0, text |-> t, argv |-> <<>>]
\* "<no output, exit code: {}>".format(p.returncode)
NoOutput(rc) == [kind |-> "format", lit |-> "<no output, exit code: {}>", num |-> rc,
                 text |-> <<>>, argv |-> <<>>]
\* util.debug.pretty_git_command(command[1:])
pretty_git_command(argv) ==
    [kind |-> "pretty_git_command", lit |-> "", num |-> 0, text |-> <<>>, argv |-> argv]
Message(format, args) == [format |-> format, args |-> args]

\* "*** Please tell me who you are.", shortened to its first characters
IdentityMarker == <<42, 42, 42>>
Contains(text, part) ==
    \E i \in 0..(Len(text) - Len(part)) :
        \A j \in 1..Len(part) : text[i + j] = part[j]

NoResult == [kind |-> "none", exc |-> "", message |-> Message("", <<>>), cmd |-> <<>>,
             stdout |-> NoneVal, stderr |-> NoneVal, show_panel |-> FALSE,
             value |-> NoneVal]
\* An exception other than GitSavvyError leaving git()
Raise(exc, message) == [NoResult EXCEPT !.kind = "raise", !.exc = exc, !.message = message]
\* raise GitSavvyError(message, cmd=, stdout=, stderr=, show_panel=, window=)
GitSavvyError(message, cmd, stdout, stderr, show_panel) ==
    [NoResult EXCEPT !.kind = "raise", !.exc = "GitSavvyError", !.message = message,
                     !.cmd = cmd, !.stdout = stdout, !.stderr = stderr,
                     !.show_panel = show_panel]
Return(value) == [NoResult EXCEPT !.kind = "return", !.value = value]
\* return p
ReturnProc == [NoResult EXCEPT !.kind = "return_proc"]

\* The locals of git() and what it has done so far.
Locals0 ==
    [ final_args |-> <<>>, command |-> <<>>, show_panel |-> FALSE, panel |-> <<>>,
      working_dir |-> None, repo_lookups |-> 0, environ |-> <<>>, popen |-> <<>>,
      stdout |-> NoneVal, stderr |-> NoneVal, returncode |-> 0, locale |-> "",
      log_git |-> <<>>, setup_user |-> 0, result |-> NoResult,
      \* what the environment answered
      binary |-> "", repo |-> "", os_environ |-> EmptyMap,
      child_stdout |-> <<>>, child_stderr |-> <<>>, yields |-> <<>>,
      \* what git() has done with the process it spawned
      proc |-> <<>>,
      \* what get_repo_path saw and what it enqueued on the worker
      find_repo_path |-> None, current_window |-> Absent, worker |-> <<>>,
      \* the exception raised inside the try statement
      error |-> "" ]

\* log("$ {}\n"), log(line), log("\n[Done in {:.2f}s]")
PanelCommand(command) == [kind |-> "command", arg |-> pretty_git_command(Tail(command))]
PanelLine(bytes) == [kind |-> "line", arg |-> Txt(Utf8Replace(bytes))]
PanelDone == [kind |-> "done", arg |-> Lit("[Done in {:.2f}s]")]

\* The arguments git() takes and the settings it reads.
GitInputs(argSet, layerSets, flagSettings, switches) ==
    [ git_cmd : Cmds,
      args : argSet,
      stdin : switches.stdin,
      working_dir : switches.working_dir,
      show_panel : switches.show_panel,
      show_panel_on_error : switches.show_panel_on_error,
      throw_on_error : switches.throw_on_error,
      decode : switches.decode,
      custom_environ : layerSets.custom_environ,
      just_the_proc : switches.just_the_proc,
      settings : [ global_pre_flags : {f.global_pre_flags : f \in flagSettings},
                   global_flags : {f.global_flags : f \in flagSettings},
                   show_panel_for : {{"push"}},
                   env : layerSets.env,
                   fallback_encoding : switches.fallback_encoding ] ]

GitInit(inputs, answers) ==
    /\ inp \in inputs
    /\ world = answers
    /\ gpc = "assemble"
    /\ g = Locals0

Finish(result) == [g EXCEPT !.result = result]

\* window = ..., final_args = ..., command = [self.git_binary_path] + ...,
\* command_str = ...  (git_binary_path raises ValueError when it resolves nothing)
git_assemble ==
    /\ gpc = "assemble"
    /\ \E git_binary_path \in world.git_binary_path :
        LET final_args == add_global_flags(inp.settings, inp.git_cmd, inp.args)
        IN IF git_binary_path = "ValueError"
           THEN /\ g' = [g EXCEPT !.final_args = final_args,
                                  !.binary = git_binary_path,
                                  !.result = Raise("ValueError", Message("Git binary not found.", <<>>))]
                /\ gpc' = "done"
           ELSE /\ g' = [g EXCEPT !.final_args = final_args,
                                  !.binary = git_binary_path,
                                  !.command = <<git_binary_path>> \o filter_(final_args)]
                /\ gpc' = "panel"
    /\ UNCHANGED <<inp, world, notGit>>

\* if show_panel is None: ...   if show_panel: init_panel, log("$ ...")
git_panel ==
    /\ gpc = "panel"
    /\ LET show_panel == IF inp.show_panel = Absent
                         THEN inp.git_cmd \in inp.settings.show_panel_for
                         ELSE inp.show_panel[1]
       IN g' = [g EXCEPT !.show_panel = show_panel,
                         !.panel = IF show_panel THEN <<PanelCommand(g.command)>> ELSE <<>>]
    /\ gpc' = "workdir"
    /\ UNCHANGED <<inp, world, notGit>>

\* A git() that resolves the repository whatever working_dir is.
NeedsRepoPathAlways == TRUE

\* if not working_dir:
NeedsRepoPath == ~Truthy(inp.working_dir)

\* What get_repo_path leaves behind: the path it returns or the exception it
\* raises, and what it has enqueued on the worker.
RepoPathFound(repo_path) ==
    [raised |-> "", value |-> repo_path, message |-> "", worker |-> <<>>]
RepoPathRaise(exc, message, worker) ==
    [raised |-> exc, value |-> None, message |-> message, worker |-> worker]

\* A get_repo_path that offers to initialize whatever the window has open.
OffersInitAlways(window) == TRUE

\* if window.folders():
OffersInit(window) == window[1] # <<>>

\* repo_path = self.find_repo_path(); if repo_path: return repo_path
\* window = self._current_window(); if not window: raise RuntimeError(...)
\* if window.folders(): enqueue_on_worker(window.run_command, "gs_offer_init")
\* raise ValueError("Not a git repository.")
get_repo_path(repo_path, window) ==
    IF Truthy(repo_path) THEN RepoPathFound(repo_path)
    ELSE IF window = Absent
    THEN RepoPathRaise("RuntimeError", "Window does not exist.", <<>>)
    ELSE RepoPathRaise("ValueError", "Not a git repository.",
                       IF OffersInit(window) THEN <<"gs_offer_init">> ELSE <<>>)

\* if not working_dir: working_dir = self.repo_path, or GitSavvyError
git_workdir ==
    /\ gpc = "workdir"
    /\ IF ~NeedsRepoPath
       THEN /\ g' = [g EXCEPT !.working_dir = inp.working_dir]
            /\ gpc' = "spawn"
       ELSE \E found \in world.find_repo_path :
            \* self._current_window() is called only when nothing was found
            \E window \in IF Truthy(found) THEN {Absent} ELSE world.current_window :
            LET r == get_repo_path(found, window)
                l == [g EXCEPT !.repo_lookups = @ + 1, !.find_repo_path = found,
                               !.current_window = window, !.worker = @ \o r.worker]
            IN IF r.raised = "RuntimeError"
               THEN /\ g' = [l EXCEPT !.repo = r.raised,
                                      !.result = GitSavvyError(
                                          Message(r.message, <<>>),
                                          <<>>, NoneVal, NoneVal, FALSE)]
                    /\ gpc' = "done"
               ELSE IF r.raised # ""
               THEN /\ g' = [l EXCEPT !.repo = r.raised,
                                      !.result = GitSavvyError(
                                          Message(r.message, <<>>),
                                          <<>>, NoneVal, NoneVal, inp.show_panel_on_error)]
                    /\ gpc' = "done"
               ELSE /\ g' = [l EXCEPT !.repo = r.value, !.working_dir = r.value]
                    /\ gpc' = "spawn"
    /\ UNCHANGED <<inp, world, notGit>>

\* util.debug.log_git(final_args, working_dir, stdin, stdout, stderr, end - start)
LogGit(l, stdin_encoded) ==
    [final_args |-> l.final_args, working_dir |-> l.working_dir, stdin |-> inp.stdin,
     stdin_encoded |-> stdin_encoded, stdout |-> l.stdout, stderr |-> l.stderr]

\* The report made after the try statement, not in its finally clause: an
\* exception inside the try statement leaves git() without a report.
FinallyAfterTry(l, stdin_encoded) ==
    IF inp.just_the_proc \/ l.result.kind = "raise" THEN l
    ELSE [l EXCEPT !.log_git = Append(@, LogGit(l, stdin_encoded)),
                   !.panel = IF l.show_panel THEN Append(@, PanelDone) ELSE @]

\* finally: if not just_the_proc: log_git(...); if show_panel: log("[Done ...]")
Finally(l, stdin_encoded) ==
    IF inp.just_the_proc THEN l
    ELSE [l EXCEPT !.log_git = Append(@, LogGit(l, stdin_encoded)),
                   !.panel = IF l.show_panel THEN Append(@, PanelDone) ELSE @]

\* An `except Exception` clause that swallows the error: git() returns None.
SwallowedError(l, e) == Return(NoneVal)

\* The error of the `except Exception` clause
SpawnError(l, e) ==
    GitSavvyError(
        Message("$ {} ({})\n\nPlease report this error to GitSavvy:\n\n{}\n\n{}",
                <<pretty_git_command(Tail(l.command)), Lit(l.working_dir), Lit(e),
                  Lit("traceback.format_exc()")>>),
        l.command, NoneVal, NoneVal, inp.show_panel_on_error)

\* A git() that drains the process whatever just_the_proc is.
ReturnsProcNever == FALSE

\* if just_the_proc:
ReturnsProc == inp.just_the_proc

\* environ = ChainMap(...); p = subprocess.Popen(...); if just_the_proc: return p
git_spawn ==
    /\ gpc = "spawn"
    /\ \E os_environ \in world.os_environ, popen \in world.popen :
        LET environ == ChainMap(inp.custom_environ, inp.settings.env, os_environ)
            l == [g EXCEPT !.environ = environ, !.os_environ = os_environ]
        IN IF popen # "ok"
           THEN /\ g' = Finally([l EXCEPT !.error = popen,
                                           !.result = SpawnError(l, popen)], FALSE)
                /\ gpc' = "done"
           ELSE LET spawned == [l EXCEPT !.popen = Append(@, [args |-> l.command,
                                                               cwd |-> l.working_dir,
                                                               env |-> environ])]
                IN IF ReturnsProc
                   THEN /\ g' = [spawned EXCEPT !.result = ReturnProc]
                        /\ gpc' = "done"
                   ELSE /\ g' = spawned
                        /\ gpc' = "communicate"
    /\ UNCHANGED <<inp, world, notGit>>

\* iter(fh.readline, b''): the lines of a stream, each with its newline; the
\* last one ends where the stream ends.
Newline == 10
RECURSIVE readlines(_)
readlines(bytes) ==
    LET nl == {i \in 1..Len(bytes) : bytes[i] = Newline}
    IN IF bytes = <<>> THEN <<>>
       ELSE IF nl = {} THEN <<bytes>>
       ELSE LET k == CHOOSE i \in nl : \A j \in nl : i <= j
            IN <<SubSeq(bytes, 1, k)>> \o readlines(Drop(bytes, k))

\* What stream_stdout_and_err may yield for a child that wrote stdout and
\* stderr: the lines of both, each stream's in its order, tagged Out or Err.
RECURSIVE Interleavings(_, _)
Interleavings(a, b) ==
    IF a = <<>> THEN {b}
    ELSE IF b = <<>> THEN {a}
    ELSE {<<Head(a)>> \o r : r \in Interleavings(Tail(a), b)}
         \cup {<<Head(b)>> \o r : r \in Interleavings(a, Tail(b))}
Yields(stdout, stderr) ==
    LET o == readlines(stdout)
        e == readlines(stderr)
    IN Interleavings([i \in 1..Len(o) |-> Out(o[i])], [i \in 1..Len(e) |-> Err(e[i])])

\* A communicate_and_log that returns the lines of stderr within stdout.
RECURSIVE communicate_and_log_merged(_)
communicate_and_log_merged(yields) ==
    IF yields = <<>> THEN [stdout |-> <<>>, stderr |-> <<>>, logged |-> <<>>]
    ELSE LET line == Head(yields)
             rest == communicate_and_log_merged(Tail(yields))
         IN [rest EXCEPT !.stdout = line.line \o @, !.logged = <<line.line>> \o @]

\* A communicate_and_log that forgets to log the lines of stderr.
RECURSIVE communicate_and_log_stdout(_)
communicate_and_log_stdout(yields) ==
    IF yields = <<>> THEN [stdout |-> <<>>, stderr |-> <<>>, logged |-> <<>>]
    ELSE LET line == Head(yields)
             rest == communicate_and_log_stdout(Tail(yields))
         IN IF line.tag = "Out"
            THEN [rest EXCEPT !.stdout = line.line \o @, !.logged = <<line.line>> \o @]
            ELSE [rest EXCEPT !.stderr = line.line \o @]

\* communicate_and_log: for line in stream_stdout_and_err(proc): stdout += line
\* or stderr += line, and log(line); returns stdout, stderr. `logged` is what
\* the log callback was called with.
RECURSIVE communicate_and_log(_)
communicate_and_log(yields) ==
    IF yields = <<>> THEN [stdout |-> <<>>, stderr |-> <<>>, logged |-> <<>>]
    ELSE LET line == Head(yields)
             rest == communicate_and_log(Tail(yields))
         IN IF line.tag = "Out"
            THEN [rest EXCEPT !.stdout = line.line \o @, !.logged = <<line.line>> \o @]
            ELSE IF line.tag = "Err"
            THEN [rest EXCEPT !.stderr = line.line \o @, !.logged = <<line.line>> \o @]
            ELSE rest

\* What Popen.communicate and communicate_and_log do with the process: write
\* stdin if there is one and close it, read both streams to their end, close
\* them, wait.
Communicated(stdin) ==
    (IF stdin = Absent THEN <<>> ELSE <<"stdin.write">>)
    \o <<"stdin.close", "read", "close", "wait">>

\* stdin.encode(); if show_panel: communicate_and_log(p, stdin, log_b) with
\* log_b the panel's log of the line decoded with replacement characters,
\* else p.communicate(stdin); then the finally clause
git_communicate ==
    /\ gpc = "communicate"
    /\ \E stdout \in world.stdout, stderr \in world.stderr,
          returncode \in world.returncode, locale \in world.locale :
        \E yields \in Yields(stdout, stderr), communicate \in world.communicate :
            IF communicate = "ok"
            THEN LET logged == communicate_and_log(yields)
                     l == [g EXCEPT !.stdout = BytesVal(IF g.show_panel THEN logged.stdout ELSE stdout),
                                    !.stderr = BytesVal(IF g.show_panel THEN logged.stderr ELSE stderr),
                                    !.returncode = returncode, !.locale = locale,
                                    !.child_stdout = stdout, !.child_stderr = stderr,
                                    !.yields = IF g.show_panel THEN yields ELSE <<>>,
                                    !.proc = Communicated(inp.stdin),
                                    !.panel = IF g.show_panel
                                              THEN @ \o [i \in 1..Len(logged.logged) |->
                                                             PanelLine(logged.logged[i])]
                                              ELSE @]
                 IN /\ g' = Finally(l, inp.stdin # Absent)
                    /\ gpc' = "decode"
            ELSE \* an exception leaves communicate_and_log or p.communicate:
                 \* the lines yielded until then are in the panel, stdout
                 \* and stderr are still None
                 \E n \in 0..Len(yields) :
                     LET logged == communicate_and_log(SubSeq(yields, 1, n))
                         l == [g EXCEPT !.child_stdout = stdout, !.child_stderr = stderr,
                                        !.yields = IF g.show_panel THEN SubSeq(yields, 1, n)
                                                   ELSE <<>>,
                                        !.proc = <<"communicate">>,
                                        !.error = communicate,
                                        !.panel = IF g.show_panel
                                                  THEN @ \o [i \in 1..Len(logged.logged) |->
                                                                 PanelLine(logged.logged[i])]
                                                  ELSE @]
                     IN /\ g' = Finally([l EXCEPT !.result = SpawnError(l, communicate)],
                                        inp.stdin # Absent)
                        /\ gpc' = "done"
    /\ UNCHANGED <<inp, world, notGit>>

\* stdout.decode("utf-8", "replace")
DecodeReplace(val) == StrVal(Utf8Replace(val.v))

\* The error raised for output that cannot be decoded
DecodeError(l) ==
    LET stdout_s == DecodeReplace(l.stdout)
        stderr_s == DecodeReplace(l.stderr)
    IN GitSavvyError(
           Message("$ {}\n{}{}{}",
                   <<pretty_git_command(Tail(l.command)), Lit("DECODE_ERROR_MESSAGE"),
                     Txt(stdout_s.v), Txt(stderr_s.v)>>),
           l.command, stdout_s, stderr_s, inp.show_panel_on_error)

\* if decode: stdout, stderr = strict_decode(stdout), strict_decode(stderr)
git_decode ==
    /\ gpc = "decode"
    /\ IF ~inp.decode
       THEN /\ g' = g
            /\ gpc' = "exit_code"
       ELSE LET out == strict_decode(g.stdout.v, g.locale, inp.settings.fallback_encoding)
                err == strict_decode(g.stderr.v, g.locale, inp.settings.fallback_encoding)
                failed == IF ~out.ok THEN out ELSE err
            IN IF out.ok /\ err.ok
               THEN /\ g' = [g EXCEPT !.stdout = StrVal(out.text), !.stderr = StrVal(err.text)]
                    /\ gpc' = "exit_code"
               ELSE IF failed.exc = "UnicodeDecodeError"
               THEN /\ g' = Finish(DecodeError(g))
                    /\ gpc' = "done"
               ELSE /\ g' = Finish(Raise(failed.exc, Message(failed.encoding, <<>>)))
                    /\ gpc' = "done"
    /\ UNCHANGED <<inp, world, notGit>>

\* ensure_decoded on a local of git()
EnsureDecoded(val, locale, fallback_encoding) ==
    IF val.type = "str" THEN Decoded(val.v)
    ELSE ensure_decoded(val.v, locale, fallback_encoding)

\* An error that reports the exit code whenever stderr is empty.
CommandFailedLookingAtStderrOnly(l, stdout_s, stderr_s, show_panel_on_error) ==
    GitSavvyError(
        Message("$ {}\n\n{}{}",
                <<pretty_git_command(Tail(l.command)), Txt(stdout_s),
                  IF stderr_s = <<>> THEN NoOutput(l.returncode) ELSE Txt(stderr_s)>>),
        l.command, StrVal(stdout_s), StrVal(stderr_s),
        show_panel_on_error /\ ~l.show_panel)

\* The error raised for a non-zero exit code
CommandFailed(l, stdout_s, stderr_s, show_panel_on_error) ==
    GitSavvyError(
        Message("$ {}\n\n{}{}",
                <<pretty_git_command(Tail(l.command)), Txt(stdout_s),
                  IF stdout_s = <<>> /\ stderr_s = <<>>
                  THEN NoOutput(l.returncode) ELSE Txt(stderr_s)>>),
        l.command, StrVal(stdout_s), StrVal(stderr_s),
        show_panel_on_error /\ ~l.show_panel)

\* A git() that raises for every non-zero exit code.
ShouldThrowWhateverTheFlag == g.returncode # 0

\* if throw_on_error and not p.returncode == 0:
ShouldThrow == inp.throw_on_error /\ g.returncode # 0

\* if throw_on_error and not p.returncode == 0: ... raise GitSavvyError
\* return stdout
git_exit_code ==
    /\ gpc = "exit_code"
    /\ IF ShouldThrow
       THEN LET out == EnsureDecoded(g.stdout, g.locale, inp.settings.fallback_encoding)
                err == EnsureDecoded(g.stderr, g.locale, inp.settings.fallback_encoding)
                failed == IF ~out.ok THEN out ELSE err
            IN IF ~(out.ok /\ err.ok)
               THEN g' = Finish(Raise(failed.exc, Message(failed.encoding, <<>>)))
               ELSE IF Contains(err.text, IdentityMarker)
               THEN g' = [g EXCEPT !.setup_user = @ + 1,
                                   !.result = CommandFailed(g, out.text, err.text, FALSE)]
               ELSE g' = Finish(CommandFailed(g, out.text, err.text, inp.show_panel_on_error))
       ELSE g' = Finish(Return(g.stdout))
    /\ gpc' = "done"
    /\ UNCHANGED <<inp, world, notGit>>

GitNext ==
    \/ git_assemble
    \/ git_panel
    \/ git_workdir
    \/ git_spawn
    \/ git_communicate
    \/ git_decode
    \/ git_exit_code

DecIdle ==
    /\ decIn = <<>>
    /\ decPc = "idle"
    /\ decOut = <<>>

GitIdle ==
    /\ inp = <<>>
    /\ world = <<>>
    /\ gpc = "idle"
    /\ g = <<>>

Threads == {"ui", "worker"}
BinLocals0 == [pc |-> "idle", git_path_setting |-> None, stdout |-> <<>>, version |-> None,
               probed |-> FALSE, read_setting |-> FALSE, searched_path |-> FALSE,
               shown |-> FALSE]
BinIo0 == [dialogs |-> <<>>, outcomes |-> <<>>]

BinIdle ==
    /\ git_path = None
    /\ error_message_displayed = FALSE
    /\ binT = [t \in Threads |-> BinLocals0]
    /\ binIo = BinIo0
    /\ binCalls = 0
    /\ binWorld = <<>>

RepoIdle ==
    /\ fs = <<>>
    /\ repo_paths = <<>>
    /\ git_dirs = <<>>
    /\ lookups = <<>>

CalIdle ==
    /\ calPc = "idle"
    /\ calStdin = None
    /\ stdinClosed = FALSE
    /\ pipesClosed = FALSE
    /\ stdinLeft = 0
    /\ stdinPipe = 0

DrainNext ==
    \/ ChildWrite
    \/ ChildExit
    \/ \E s \in Streams : read_linewise(s)
    \/ \E s \in Streams : read_linewise_raise(s)
    \/ stream_stdout_and_err

InitDrain == DrainInit /\ DecIdle /\ GitIdle /\ CalIdle /\ BinIdle /\ RepoIdle /\ CmdIdle

SpecDrain == InitDrain /\ [][DrainNext]_vars

\* The operating system schedules the child and every thread; the consumer's
\* sleeps are bounded.
DrainFairness ==
    /\ WF_vars(ChildWrite)
    /\ WF_vars(ChildExit)
    /\ \A s \in Streams : WF_vars(read_linewise(s))
    /\ WF_vars(stream_stdout_and_err)

SpecDrainFair == InitDrain /\ [][DrainNext]_vars /\ DrainFairness

(***************************************************************************)
(* Properties of the drain                                                 *)
(***************************************************************************)
\* The lines a stream has carried so far, in the order the child wrote them.
LinesOf(s) == [k \in 1..written[s] |-> Line(s, k)]
Tagged(tag) == SelectSeq(yielded, LAMBDA it : it.tag = tag)
LinesIn(items) == [i \in 1..Len(items) |-> items[i].line]
IsPrefix(p, q) == Len(p) <= Len(q) /\ \A i \in 1..Len(p) : p[i] = q[i]
AnyReaderRaised == \E s \in Streams : future[s] = "raised"

\* C1: the generator never yields a line twice, out of its stream's order or
\* under the wrong tag, and when it ends without a reader having raised it has
\* yielded exactly the m + n lines the child wrote: the stdout lines as Out
\* and the stderr lines as Err, each stream in its original order.
C1_DrainYieldsEveryLineOnce ==
    /\ IsPrefix(LinesIn(Tagged("Out")), LinesOf("stdout"))
    /\ IsPrefix(LinesIn(Tagged("Err")), LinesOf("stderr"))
    /\ pc = "done" =>
        /\ script = <<>>
        /\ Len(yielded) = written["stdout"] + written["stderr"]
        /\ LinesIn(Tagged("Out")) = LinesOf("stdout")
        /\ LinesIn(Tagged("Err")) = LinesOf("stderr")

\* C1's case: both streams carried two lines, a stderr line was yielded
\* before a stdout line, and the last line came from `yield from container`.
C1_Witness ==
    /\ pc = "done"
    /\ written["stdout"] = 2 /\ written["stderr"] = 2
    /\ yfIdx >= 1
    /\ yielded[1].tag = "Err"

\* C2: under fair scheduling the drain completes, whatever the child writes
\* and however full the pipes get, unless a reader raised.
C2_DrainCompletes == <>(pc = "done" \/ AnyReaderRaised)

\* C2's case: the child wrote more than a pipe's capacity to each stream and
\* the drain has completed.
C2_Witness ==
    /\ pc = "done"
    /\ written["stdout"] > PipeCap
    /\ written["stderr"] > PipeCap

InitDecode == DrainIdle /\ DecInit /\ GitIdle /\ CalIdle /\ BinIdle /\ RepoIdle /\ CmdIdle

SpecDecode == InitDecode /\ [][DecNext]_vars

(***************************************************************************)
(* Properties of the encoding cascade                                      *)
(***************************************************************************)
Candidates == <<"utf-8", decIn.locale, decIn.fallback_encoding>>
CandidateResult(i) == decode(decIn.input, Candidates[i])
Succeeding == {i \in 1..3 : CandidateResult(i).ok}

\* C4: strict_decode returns what the first of utf-8, the locale's encoding
\* and the fallback encoding that decodes the input gives, and raises only
\* when all three fail, with the failure of the last one.
C4_StrictDecodeFirstSuccess ==
    decPc = "strict_decode" =>
        IF Succeeding # {}
        THEN LET first == CHOOSE i \in Succeeding : \A j \in Succeeding : i <= j
             IN decOut = Decoded(CandidateResult(first).text)
        ELSE /\ ~decOut.ok
             /\ decOut = CandidateResult(3)

\* C4's case: utf-8 and the locale's encoding fail and the fallback decodes.
C4_Witness ==
    /\ decPc = "strict_decode"
    /\ Succeeding = {3}
    /\ decOut.ok

\* C5: lax_decode and ensure_decoded never raise: they return strict_decode's
\* text when it succeeds and the UTF-8 decoding with replacement characters
\* otherwise, also when the fallback_encoding setting names no codec.
C5_LaxDecodeNeverRaises ==
    decPc \in {"lax_decode", "ensure_decoded"} =>
        /\ decOut.ok
        /\ decOut.text =
               IF Succeeding # {}
               THEN strict_decode(decIn.input, decIn.locale, decIn.fallback_encoding).text
               ELSE Utf8Replace(decIn.input)

(***************************************************************************)
(* Specifications of git()                                                 *)
(***************************************************************************)
\* Every switch of git(), one argument list, no environment layers; the
\* environment answers with every outcome.
OutcomeInputs ==
    GitInputs({<<"-a", None>>},
              [custom_environ |-> {Absent}, env |-> {Absent}],
              {[global_pre_flags |-> EmptyMap, global_flags |-> EmptyMap]},
              [stdin |-> {Absent, Some("input")},
               working_dir |-> {None, "/work"},
               show_panel |-> {Absent, Some(TRUE), Some(FALSE)},
               show_panel_on_error |-> BOOLEAN,
               throw_on_error |-> BOOLEAN,
               decode |-> BOOLEAN,
               just_the_proc |-> BOOLEAN,
               fallback_encoding |-> {"cp1252", "no-such-codec"}])

OutcomeWorld ==
    [git_binary_path |-> {"/usr/bin/git", "ValueError"},
     find_repo_path |-> {"/repo", None},
     current_window |-> {Absent, Some(<<>>), Some(<<"/open">>)},
     os_environ |-> {EmptyMap},
     popen |-> {"ok", "OSError"},
     communicate |-> {"ok", "BrokenPipeError"},
     stdout |-> {<<>>, <<65>>, <<129>>},
     stderr |-> {<<>>, <<65>>, <<233>>, <<129>>, IdentityMarker},
     returncode |-> {0, 1, 128},
     locale |-> {"utf-8", "latin-1"}]

InitGit == DrainIdle /\ DecIdle /\ GitInit(OutcomeInputs, OutcomeWorld) /\ CalIdle /\ BinIdle /\ RepoIdle /\ CmdIdle

SpecGit == InitGit /\ [][GitNext]_vars

\* Every argument list, flag setting and environment layering; the other
\* switches at their defaults, the child answering with plain output.
ArgvInputs ==
    GitInputs(SeqsUpTo(ArgStrings \cup {None}, MaxArgs),
              [custom_environ |-> {Absent} \cup {Some(m) : m \in Layer("custom")},
               env |-> {Absent} \cup {Some(m) : m \in Layer("settings")}],
              FlagSettings,
              [stdin |-> {Absent},
               working_dir |-> {None, "", "/work"},
               show_panel |-> {Absent},
               show_panel_on_error |-> {TRUE},
               throw_on_error |-> {TRUE},
               decode |-> {TRUE},
               just_the_proc |-> {FALSE},
               fallback_encoding |-> {"cp1252"}])

ArgvWorld ==
    [git_binary_path |-> {"/usr/bin/git", "ValueError"},
     find_repo_path |-> {"/repo", None},
     current_window |-> {Some(<<"/open">>)},
     os_environ |-> Layer("inherited"),
     popen |-> {"ok"},
     communicate |-> {"ok"},
     stdout |-> {<<65>>},
     stderr |-> {<<>>},
     returncode |-> {0, 1},
     locale |-> {"utf-8"}]

InitGitArgs == DrainIdle /\ DecIdle /\ GitInit(ArgvInputs, ArgvWorld) /\ CalIdle /\ BinIdle /\ RepoIdle /\ CmdIdle

SpecGitArgs == InitGitArgs /\ [][GitNext]_vars

(***************************************************************************)
(* Properties of git()                                                     *)
(***************************************************************************)
\* stdout, stderr = communicate_and_log(...) or p.communicate(...) returned
CommunicationCompleted == g.proc = Communicated(inp.stdin)
\* git() has spawned the child, drained it and come to its end.
Drained == gpc = "done" /\ g.popen # <<>> /\ g.log_git # <<>> /\ CommunicationCompleted
StrictOf(bytes) == strict_decode(bytes, g.locale, inp.settings.fallback_encoding)
LaxOf(bytes) == lax_decode(bytes, g.locale, inp.settings.fallback_encoding)
OutputDecodes == StrictOf(g.child_stdout).ok /\ StrictOf(g.child_stderr).ok
RaisedGitSavvyError == g.result.kind = "raise" /\ g.result.exc = "GitSavvyError"
MessageArgs == {g.result.message.args[i] : i \in 1..Len(g.result.message.args)}

\* C3: a drained invocation with decode on whose output decodes raises
\* GitSavvyError exactly when the exit code is not 0 and throw_on_error is
\* true, and returns the decoded stdout in every other case.
C3_RaisesIffNonZeroAndThrow ==
    (Drained /\ inp.decode /\ OutputDecodes) =>
        /\ RaisedGitSavvyError <=> (g.returncode # 0 /\ inp.throw_on_error)
        /\ ~(g.returncode # 0 /\ inp.throw_on_error) =>
               g.result = Return(StrVal(StrictOf(g.child_stdout).text))
        /\ g.result.kind \in {"raise", "return"}

\* C3's case: a non-zero exit code with throw_on_error false returns stdout,
\* decoded by the fallback encoding.
C3_Witness ==
    /\ Drained /\ inp.decode /\ OutputDecodes
    /\ g.returncode = 128 /\ ~inp.throw_on_error
    /\ g.child_stderr = <<233>> /\ g.locale = "utf-8"
    /\ g.result.kind = "return"

\* C6: with decode on, output that cannot be strictly decoded makes git()
\* raise GitSavvyError with both streams decoded as UTF-8 with replacement
\* characters and the diagnostic preamble in the message, whatever
\* throw_on_error and the exit code are.
C6_DecodeFailureRaisesGitSavvyError ==
    (Drained /\ inp.decode /\ ~OutputDecodes) =>
        /\ RaisedGitSavvyError
        /\ g.result.stdout = StrVal(Utf8Replace(g.child_stdout))
        /\ g.result.stderr = StrVal(Utf8Replace(g.child_stderr))
        /\ g.result.message.args[2] = Lit("DECODE_ERROR_MESSAGE")

\* C6 where the fallback_encoding setting names a codec: the statement holds.
C6_KnownFallbackCodec ==
    inp.settings.fallback_encoding \in Codecs => C6_DecodeFailureRaisesGitSavvyError

\* C7: git() spawns nothing when the binary or the repository does not
\* resolve, and with a working_dir given it spawns there without resolving
\* the repository.
C7_NoSpawnWhenResolutionFails ==
    /\ g.binary = "ValueError" =>
           g.popen = <<>> /\ gpc = "done" /\ g.result.kind = "raise"
    /\ (~Truthy(inp.working_dir) /\ g.repo \in {"RuntimeError", "ValueError"}) =>
           g.popen = <<>> /\ gpc = "done" /\ RaisedGitSavvyError
    /\ Truthy(inp.working_dir) =>
           /\ g.repo_lookups = 0
           /\ \A i \in 1..Len(g.popen) : g.popen[i].cwd = inp.working_dir
    /\ g.popen # <<>> => g.binary = "/usr/bin/git" /\ Truthy(g.popen[1].cwd)

\* C7's cases: the repository did not resolve; a given working_dir was used.
C7_Witness ==
    /\ gpc = "done"
    /\ \/ g.repo = "ValueError" /\ g.binary = "/usr/bin/git"
       \/ Truthy(inp.working_dir) /\ g.popen # <<>>

\* C8: the spawned argument vector is the binary, the subcommand's pre-flags,
\* the subcommand, its post-flags and the caller's arguments without the
\* None ones, in that order, and holds no flag of another subcommand.
FlagsFor(flags, cmd) == IF cmd \in DOMAIN flags THEN flags[cmd] ELSE <<>>
RECURSIVE WithoutNone(_)
WithoutNone(args) ==
    IF args = <<>> THEN <<>>
    ELSE IF Head(args) = None THEN WithoutNone(Tail(args))
    ELSE <<Head(args)>> \o WithoutNone(Tail(args))
Elements(seq) == {seq[i] : i \in 1..Len(seq)}

C8_ArgumentVector ==
    \A i \in 1..Len(g.popen) :
        /\ g.popen[i].args =
               <<g.binary>>
               \o WithoutNone(FlagsFor(inp.settings.global_pre_flags, inp.git_cmd))
               \o <<inp.git_cmd>>
               \o WithoutNone(FlagsFor(inp.settings.global_flags, inp.git_cmd))
               \o WithoutNone(inp.args)
        /\ \A other \in Cmds \ {inp.git_cmd} :
               \A flag \in Elements(FlagsFor(inp.settings.global_pre_flags, other))
                           \cup Elements(FlagsFor(inp.settings.global_flags, other)) :
                   flag \notin Elements(g.popen[i].args)

\* C8's case: pre-flags, post-flags and arguments with a None among them.
C8_Witness ==
    /\ g.popen # <<>>
    /\ inp.git_cmd = "commit"
    /\ inp.settings.global_pre_flags # EmptyMap
    /\ inp.settings.global_flags # EmptyMap
    /\ inp.args = <<None, "-b">>
    /\ Len(g.popen[1].args) = 6

\* C9: the child's environment resolves every name to custom_environ's value
\* if defined there, else to the env setting's, else to the inherited one's;
\* a name no layer defines is undefined.
Defines(layer, name) == layer # Absent /\ name \in DOMAIN layer[1]
C9_EnvironmentPrecedence ==
    \A i \in 1..Len(g.popen) : \A name \in EnvNames \cup {"UNSET"} :
        ChainMapGet(g.popen[i].env, name, 1) =
            IF Defines(inp.custom_environ, name) THEN inp.custom_environ[1][name]
            ELSE IF Defines(inp.settings.env, name) THEN inp.settings.env[1][name]
            ELSE IF name \in DOMAIN g.os_environ THEN g.os_environ[name]
            ELSE Undefined

\* C9's case: the name is defined by the env setting and inherited, not by
\* custom_environ.
C9_Witness ==
    /\ g.popen # <<>>
    /\ \E name \in EnvNames :
        /\ inp.custom_environ # Absent /\ ~Defines(inp.custom_environ, name)
        /\ Defines(inp.settings.env, name)
        /\ name \in DOMAIN g.os_environ
        /\ ChainMapGet(g.popen[1].env, name, 1) = "settings"

\* C10: the error raised for a non-zero exit holds "<no output, exit code: N>"
\* exactly when stdout and stderr are both empty, holds the lax-decoded stderr
\* when stderr is not empty, and carries the command and both decoded streams.
IsCommandFailed == RaisedGitSavvyError /\ g.result.message.format = "$ {}\n\n{}{}"
C10_CommandFailedMessage ==
    (gpc = "done" /\ IsCommandFailed) =>
        /\ NoOutput(g.returncode) \in MessageArgs
               <=> (g.child_stdout = <<>> /\ g.child_stderr = <<>>)
        /\ \A a \in MessageArgs : a.kind = "format" => a = NoOutput(g.returncode)
        /\ g.child_stderr # <<>> =>
               g.result.message.args[3] = Txt(LaxOf(g.child_stderr).text)
        /\ g.result.cmd = g.popen[1].args
        /\ g.result.stdout = StrVal(LaxOf(g.child_stdout).text)
        /\ g.result.stderr = StrVal(LaxOf(g.child_stderr).text)
        /\ g.returncode # 0

\* C10's cases: no output at all with exit code 128; output on stdout only.
C10_Witness ==
    /\ gpc = "done" /\ IsCommandFailed
    /\ \/ g.child_stdout = <<>> /\ g.child_stderr = <<>> /\ g.returncode = 128
       \/ g.child_stdout # <<>> /\ g.child_stderr = <<>>

(***************************************************************************)
(* The timing report and the transcript panel of git()                     *)
(***************************************************************************)
\* git() has come to the spawn step: the environment of the child is built.
ReachedSpawn == g # <<>> /\ g.environ # <<>>
AfterTry == gpc \in {"decode", "exit_code", "done"}

\* C11 as stated: every invocation that reaches the spawn step has reported
\* to util.debug.log_git exactly once when it ends.
C11_EverySpawnReportsOnce ==
    (gpc = "done" /\ ReachedSpawn) => Len(g.log_git) = 1

\* C11, amended: an invocation that is not in handle mode and reaches the
\* spawn step reports to util.debug.log_git exactly once, whatever the
\* outcome, and the report is made before decoding and the exit code check,
\* so before their errors are raised; handle mode and an invocation that
\* does not reach the spawn step report nothing.
C11_DrainedSpawnReportsOnce ==
    /\ (gpc \in {"assemble", "panel", "workdir", "spawn", "communicate"}) =>
           g.log_git = <<>>
    /\ (gpc \in {"decode", "exit_code"}) =>
           Len(g.log_git) = 1 /\ g.result = NoResult
    /\ (gpc = "done" /\ ReachedSpawn /\ ~inp.just_the_proc) => Len(g.log_git) = 1
    /\ (gpc = "done" /\ (~ReachedSpawn \/ inp.just_the_proc)) => g.log_git = <<>>

\* C11's case: the spawn failed and the report was made all the same.
C11_Witness ==
    /\ gpc = "done" /\ ReachedSpawn /\ g.popen = <<>>
    /\ RaisedGitSavvyError
    /\ Len(g.log_git) = 1

\* The switches of the transcript panel; the child writes several lines to
\* both streams, with and without a newline at the end.
PanelInputs ==
    GitInputs({<<"-a">>},
              [custom_environ |-> {Absent}, env |-> {Absent}],
              {[global_pre_flags |-> EmptyMap, global_flags |-> EmptyMap]},
              [stdin |-> {Absent},
               working_dir |-> {None, "/work"},
               show_panel |-> {Absent, Some(TRUE), Some(FALSE)},
               show_panel_on_error |-> {TRUE},
               throw_on_error |-> BOOLEAN,
               decode |-> {TRUE},
               just_the_proc |-> BOOLEAN,
               fallback_encoding |-> {"cp1252"}])

PanelWorld ==
    [git_binary_path |-> {"/usr/bin/git", "ValueError"},
     find_repo_path |-> {"/repo", None},
     current_window |-> {Some(<<"/open">>)},
     os_environ |-> {EmptyMap},
     popen |-> {"ok", "OSError"},
     communicate |-> {"ok", "BrokenPipeError"},
     stdout |-> {<<>>, <<65, Newline, 66>>, <<65, Newline, 129, Newline>>},
     stderr |-> {<<>>, <<67, Newline>>, <<67, Newline, 68, Newline>>},
     returncode |-> {0, 1},
     locale |-> {"utf-8"}]

InitGitPanel == DrainIdle /\ DecIdle /\ GitInit(PanelInputs, PanelWorld) /\ CalIdle /\ BinIdle /\ RepoIdle /\ CmdIdle

SpecGitPanel == InitGitPanel /\ [][GitNext]_vars

\* if show_panel is None: show_panel = git_cmd in show_panel_for
Mirroring ==
    IF inp.show_panel = Absent THEN inp.git_cmd \in inp.settings.show_panel_for
    ELSE inp.show_panel[1]

LinesTagged(items, tag) == LinesIn(SelectSeq(items, LAMBDA it : it.tag = tag))

CalInit ==
    /\ script \in SeqsUpTo(Streams, MaxWrites)
    /\ written = [s \in Streams |-> 0]
    /\ childPc = "run"
    /\ pipe = [s \in Streams |-> <<>>]
    /\ future = [s \in Streams |-> "not_started"]
    /\ held = [s \in Streams |-> Line(s, 0)]
    /\ container = <<>>
    /\ pc = "not_started"
    /\ delay = 1
    /\ yielded = <<>>
    /\ yfIdx = 0
    /\ procClosed = FALSE
    /\ sleeps = Sleeps0
    /\ calPc = "write_stdin"
    /\ calStdin \in {None, "bytes"}
    /\ stdinClosed = FALSE
    /\ pipesClosed = FALSE
    /\ stdinLeft = 0
    /\ stdinPipe = 0

\* if stdin is not None: (skipped)
cal_stdin_none ==
    /\ calPc = "write_stdin"
    /\ calStdin = None
    /\ calPc' = "start"
    /\ UNCHANGED <<drainVars, calStdin, stdinLeft, stdinPipe, stdinClosed, pipesClosed, notCal>>

\* proc.stdin.write(stdin); proc.stdin.flush(); proc.stdin.close()
cal_stdin_write ==
    /\ calPc = "write_stdin"
    /\ calStdin # None
    /\ stdinLeft = 0
    /\ stdinClosed' = TRUE
    /\ calPc' = "start"
    /\ UNCHANGED <<drainVars, calStdin, stdinLeft, stdinPipe, pipesClosed, notCal>>

\* proc.stdin.write(stdin) or flush() raises BrokenPipeError: the child has
\* exited without reading its input.  The exception leaves communicate_and_log.
cal_stdin_broken_pipe ==
    /\ calPc = "write_stdin"
    /\ calStdin # None
    /\ childPc = "exited"
    /\ calPc' = "raised"
    /\ UNCHANGED <<drainVars, calStdin, stdinLeft, stdinPipe, stdinClosed, pipesClosed, notCal>>

\* for line in stream_stdout_and_err(proc): the generator starts, both
\* readers are run as futures.
cal_start_drain ==
    /\ calPc = "start"
    /\ future' = [s \in Streams |-> "running"]
    /\ pc' = "while_out"
    /\ calPc' = "drain"
    /\ UNCHANGED <<script, written, childPc, pipe, held, container, delay, yielded,
                   yfIdx, procClosed, sleeps, calStdin, stdinLeft, stdinPipe, stdinClosed, pipesClosed, notCal>>

\* yield container.popleft() inside `with proc`, and log(line) raises: the
\* for statement is left and the generator closed, GeneratorExit is raised
\* at the yield.
cal_log_raises_in_with ==
    /\ calPc = "drain"
    /\ pc = "pop"
    /\ container # <<>>
    /\ yielded' = Append(yielded, Head(container))
    /\ container' = Tail(container)
    /\ pc' = "generator_exit"
    /\ calPc' = "unwinding"
    /\ UNCHANGED <<script, written, childPc, pipe, future, held, delay, yfIdx,
                   procClosed, sleeps, calStdin, stdinLeft, stdinPipe, stdinClosed, pipesClosed, notCal>>

\* Popen.__exit__ on GeneratorExit: stdout, stderr and stdin are closed; a
\* reader still reading finds its file closed.
stream_generator_exit_close ==
    /\ pc = "generator_exit"
    /\ pipesClosed' = TRUE
    /\ future' = [s \in Streams |-> IF running(s) THEN "raised" ELSE future[s]]
    /\ pc' = "generator_exit_wait"
    /\ UNCHANGED <<script, written, childPc, pipe, held, container, delay, yielded,
                   yfIdx, procClosed, sleeps, calPc, calStdin, stdinLeft, stdinPipe, stdinClosed, notCal>>

\* The child writes to a pipe nobody reads any more and is ended by SIGPIPE.
ChildBrokenPipe ==
    /\ childPc = "run"
    /\ script # <<>>
    /\ Head(script) \in Streams
    /\ pipesClosed
    /\ childPc' = "exited"
    /\ UNCHANGED <<script, written, pipe, future, held, container, pc, delay,
                   yielded, yfIdx, procClosed, sleeps, calVars, notCal>>

\* ... then Popen.__exit__ waits for the child, and the exception that made
\* the consumer leave goes on to the caller of communicate_and_log.
stream_generator_exit_wait ==
    /\ pc = "generator_exit_wait"
    /\ childPc = "exited"
    /\ procClosed' = TRUE
    /\ pc' = "closed"
    /\ calPc' = "raised"
    /\ UNCHANGED <<script, written, childPc, pipe, future, held, container, delay,
                   yielded, yfIdx, sleeps, calStdin, stdinLeft, stdinPipe, stdinClosed, pipesClosed, notCal>>

\* `yield from container` yields and log(line) raises: the generator is
\* closed after its `with proc` block.
cal_log_raises_after_with ==
    /\ calPc = "drain"
    /\ pc = "yield_from"
    /\ yfIdx < Len(container)
    /\ yielded' = Append(yielded, container[yfIdx + 1])
    /\ yfIdx' = yfIdx + 1
    /\ pc' = "closed"
    /\ calPc' = "raised"
    /\ UNCHANGED <<script, written, childPc, pipe, future, held, container, delay,
                   procClosed, sleeps, calStdin, stdinLeft, stdinPipe, stdinClosed, pipesClosed, notCal>>

\* return stdout, stderr
cal_return ==
    /\ calPc = "drain"
    /\ pc = "done"
    /\ calPc' = "returned"
    /\ UNCHANGED <<drainVars, calStdin, stdinLeft, stdinPipe, stdinClosed, pipesClosed, notCal>>

\* out_f.result() or err_f.result() raised: the exception leaves the
\* generator and communicate_and_log.
cal_reader_raised ==
    /\ calPc = "drain"
    /\ pc = "raised"
    /\ calPc' = "raised"
    /\ UNCHANGED <<drainVars, calStdin, stdinLeft, stdinPipe, stdinClosed, pipesClosed, notCal>>

communicate_and_log_steps ==
    \/ cal_stdin_none
    \/ cal_stdin_write
    \/ cal_stdin_broken_pipe
    \/ cal_start_drain
    \/ cal_log_raises_in_with
    \/ stream_generator_exit_close
    \/ stream_generator_exit_wait
    \/ cal_log_raises_after_with
    \/ cal_return
    \/ cal_reader_raised

ReleaseNext ==
    \/ ChildWrite
    \/ ChildExit
    \/ ChildBrokenPipe
    \/ \E s \in Streams : read_linewise(s)
    \/ \E s \in Streams : read_linewise_raise(s)
    \/ stream_stdout_and_err
    \/ communicate_and_log_steps

InitRelease == CalInit /\ DecIdle /\ GitIdle /\ BinIdle /\ RepoIdle /\ CmdIdle

SpecRelease == InitRelease /\ [][ReleaseNext]_vars

\* Control is back at the caller of communicate_and_log.
CalLeft == calPc \in {"returned", "raised"}
StdinPipeClosed == stdinClosed \/ pipesClosed \/ procClosed

\* C13: whenever communicate_and_log has handed control back to its caller,
\* by returning or by an exception, the three pipes of the child are closed
\* and the child has been waited for.
C13_ReleasedOnEveryExit ==
    CalLeft => (procClosed /\ StdinPipeClosed)

\* C13 for the exits that come after the drain has started (the generator
\* ends, a reader raised, the log callback raised): there the statement holds.
C13_ReleasedOnceDrainStarted ==
    (CalLeft /\ pc # "not_started") => (procClosed /\ StdinPipeClosed)

\* The case of C13_ReleasedOnceDrainStarted: the log callback raised inside
\* `with proc` while the child still had lines to write.
C13_DrainStartedWitness ==
    /\ calPc = "raised" /\ pc = "closed"
    /\ pipesClosed /\ procClosed
    /\ script # <<>>

(***************************************************************************)
(* _GitCommand.git_binary_path                                             *)
(***************************************************************************)
MIN_GIT_VERSION == <<2, 18, 0>>
GIT_TOO_OLD_MSG == "Your Git version is too old. GitSavvy requires {:d}.{:d}.{:d} or above."
GIT_NOT_FOUND_MSG == "Your Git binary cannot be found. ..."

\* sublime.platform()
Platform == "linux"

\* The values of the git_path setting: None, a string, a dict by platform.
SettingNone == [type |-> "None", str |-> None, map |-> EmptyMap]
SettingStr(path) == [type |-> "str", str |-> path, map |-> EmptyMap]
SettingDict(map) == [type |-> "dict", str |-> None, map |-> map]
BinSettings ==
    { SettingNone, SettingStr("/opt/git"),
      SettingDict("linux" :> "/linux/git"),
      SettingDict("default" :> "/default/git") }

\* What shutil.which("git") answers.
WhichResults == {None, "/usr/bin/git"}

\* What `git --version` writes, as a sequence of characters; the empty text
\* stands for a check_output that raised (`except Exception: stdout = ""`).
GitVersionPrefix == <<"g", "i", "t", " ", "v", "e", "r", "s", "i", "o", "n", " ">>
VersionOutputs ==
    { <<>>,
      GitVersionPrefix \o <<"2", ".", "9", ".", "5", "\n">>,
      GitVersionPrefix \o <<"2", ".", "1", "8", ".", "0", "\n">>,
      GitVersionPrefix \o <<"2", ".", "3", "0", ".", "1", ".", "w", "\n">>,
      GitVersionPrefix \o <<"3", ".", "0", ".", "0">>,
      GitVersionPrefix \o <<"2", ".", "3", "0", "\n">>,
      <<"G", "i", "t", " ", "2", ".", "3", "0", ".", "1", "\n">> }

\* int() of one decimal digit
DigitValue ==
    ("0" :> 0) @@ ("1" :> 1) @@ ("2" :> 2) @@ ("3" :> 3) @@ ("4" :> 4) @@
    ("5" :> 5) @@ ("6" :> 6) @@ ("7" :> 7) @@ ("8" :> 8) @@ ("9" :> 9)
IsDigit(c) == c \in DOMAIN DigitValue

\* [0-9]+ at the start of text: how many characters it takes (0: no match)
RECURSIVE digits_at(_)
digits_at(text) ==
    IF text # <<>> /\ IsDigit(Head(text)) THEN 1 + digits_at(Tail(text)) ELSE 0

\* int(group)
RECURSIVE int(_)
int(digits) ==
    IF digits = <<>> THEN 0
    ELSE 10 * int(SubSeq(digits, 1, Len(digits) - 1)) + DigitValue[digits[Len(digits)]]

NoVersion == <<>>

\* A git_version_from_path that reads the first digit of every group only.
git_version_first_digits(stdout) ==
    LET p == Len(GitVersionPrefix)
    IN IF Len(stdout) >= p + 5 /\ SubSeq(stdout, 1, p) = GitVersionPrefix
          /\ IsDigit(stdout[p + 1]) /\ stdout[p + 2] = "." /\ IsDigit(stdout[p + 3])
          /\ stdout[p + 4] = "." /\ IsDigit(stdout[p + 5])
       THEN <<int(<<stdout[p + 1]>>), int(<<stdout[p + 3]>>), int(<<stdout[p + 5]>>)>>
       ELSE NoVersion

\* match = re.match(r"git version ([0-9]+)\.([0-9]+)\.([0-9]+)", stdout)
\* if match: return tuple(map(int, match.groups()))  else: return None
git_version_from_path(stdout) ==
    LET p == Len(GitVersionPrefix)
        rest1 == SubSeq(stdout, p + 1, Len(stdout))
        n1 == digits_at(rest1)
        rest2 == SubSeq(rest1, n1 + 2, Len(rest1))
        n2 == digits_at(rest2)
        rest3 == SubSeq(rest2, n2 + 2, Len(rest2))
        n3 == digits_at(rest3)
    IN IF /\ Len(stdout) >= p /\ SubSeq(stdout, 1, p) = GitVersionPrefix
          /\ n1 > 0 /\ Len(rest1) > n1 /\ rest1[n1 + 1] = "."
          /\ n2 > 0 /\ Len(rest2) > n2 /\ rest2[n2 + 1] = "."
          /\ n3 > 0
       THEN <<int(SubSeq(rest1, 1, n1)), int(SubSeq(rest2, 1, n2)),
              int(SubSeq(rest3, 1, n3))>>
       ELSE NoVersion

\* version < MIN_GIT_VERSION: Python's order on tuples of integers
VersionLess(a, b) ==
    \/ \E i \in 1..Len(a) :
        /\ i <= Len(b)
        /\ a[i] < b[i]
        /\ \A j \in 1..(i - 1) : a[j] = b[j]
    \/ Len(a) < Len(b) /\ \A j \in 1..Len(a) : a[j] = b[j]

\* if isinstance(git_path_setting, dict): ... else: git_path = git_path_setting
FromSetting(git_path_setting) ==
    IF git_path_setting.type = "dict"
    THEN LET by_platform == Get(git_path_setting.map, Platform, None)
         IN IF ~Truthy(by_platform) THEN Get(git_path_setting.map, "default", None)
            ELSE by_platform
    ELSE git_path_setting.str

Outcome(t, kind, value) ==
    [thread |-> t, kind |-> kind, value |-> value, probed |-> binT[t].probed,
     read_setting |-> binT[t].read_setting, searched_path |-> binT[t].searched_path]

\* One thread enters the property.
bin_call(t) ==
    /\ binT[t].pc = "idle"
    /\ binCalls < MaxCalls
    /\ binCalls' = binCalls + 1
    /\ binT' = [binT EXCEPT ![t] = [BinLocals0 EXCEPT !.pc = "check"]]
    /\ UNCHANGED <<git_path, error_message_displayed, binIo, binWorld, notBin>>

\* A call made when no other call is under way.
bin_call_in_turn(t) ==
    /\ \A u \in Threads : binT[u].pc = "idle"
    /\ bin_call(t)

\* A git_binary_path that resolves the binary on every call.
NeedsResolutionAlways == TRUE

\* if not git_path:
NeedsResolution == ~Truthy(git_path)

bin_check(t) ==
    /\ binT[t].pc = "check"
    /\ binT' = [binT EXCEPT ![t].pc = IF NeedsResolution THEN "setting" ELSE "final_check"]
    /\ UNCHANGED <<git_path, error_message_displayed, binIo, binCalls, binWorld, notBin>>

\* git_path_setting = self.savvy_settings.get("git_path"); git_path = ...
bin_setting(t) ==
    /\ binT[t].pc = "setting"
    /\ \E git_path_setting \in binWorld.settings :
        /\ git_path' = FromSetting(git_path_setting)
        /\ binT' = [binT EXCEPT ![t].pc = "which",
                                ![t].git_path_setting = git_path_setting.type,
                                ![t].read_setting = TRUE]
    /\ UNCHANGED <<error_message_displayed, binIo, binCalls, binWorld, notBin>>

\* if not git_path: git_path = shutil.which("git")
bin_which(t) ==
    /\ binT[t].pc = "which"
    /\ IF ~Truthy(git_path)
       THEN \E found \in binWorld.which :
            /\ git_path' = found
            /\ binT' = [binT EXCEPT ![t].pc = "probe", ![t].searched_path = TRUE]
       ELSE /\ binT' = [binT EXCEPT ![t].pc = "probe"]
            /\ UNCHANGED git_path
    /\ UNCHANGED <<error_message_displayed, binIo, binCalls, binWorld, notBin>>

\* if git_path: version = git_version_from_path(git_path)
bin_probe(t) ==
    /\ binT[t].pc = "probe"
    /\ IF Truthy(git_path)
       THEN \E stdout \in binWorld.outputs :
            binT' = [binT EXCEPT ![t].pc = "version", ![t].stdout = stdout,
                                 ![t].version = git_version_from_path(stdout),
                                 ![t].probed = TRUE]
       ELSE binT' = [binT EXCEPT ![t].pc = "final_check"]
    /\ UNCHANGED <<git_path, error_message_displayed, binIo, binCalls, binWorld, notBin>>

\* A git_binary_path that keeps the path of a binary it found too old.
GitPathWhenTooOldKept == git_path

\* git_path = None (line 415)
GitPathWhenTooOld == None

\* if version: if version < MIN_GIT_VERSION: git_path = None ...
\* else: git_path = None
bin_version(t) ==
    /\ binT[t].pc = "version"
    /\ IF binT[t].version # NoVersion
       THEN IF VersionLess(binT[t].version, MIN_GIT_VERSION)
            THEN /\ git_path' = GitPathWhenTooOld
                 /\ binT' = [binT EXCEPT ![t].pc = "too_old_dialog"]
            ELSE /\ binT' = [binT EXCEPT ![t].pc = "final_check"]
                 /\ UNCHANGED git_path
       ELSE /\ git_path' = None
            /\ binT' = [binT EXCEPT ![t].pc = "final_check"]
    /\ UNCHANGED <<error_message_displayed, binIo, binCalls, binWorld, notBin>>

\* A git_binary_path that shows its dialog whenever it fails.
ShowsDialogAlways == TRUE

\* if not error_message_displayed:
ShowsDialog == ~error_message_displayed

\* if not error_message_displayed: sublime.error_message(msg)
ErrorMessage(t, msg, next) ==
    /\ IF ShowsDialog
       THEN /\ binIo' = [binIo EXCEPT !.dialogs = Append(@, msg)]
            /\ binT' = [binT EXCEPT ![t].pc = next, ![t].shown = TRUE]
       ELSE /\ binT' = [binT EXCEPT ![t].pc = next]
            /\ UNCHANGED binIo
    /\ UNCHANGED <<git_path, error_message_displayed, binCalls, binWorld, notBin>>

\* error_message_displayed = True (after the dialog); raise ValueError(text)
RaiseValueError(t, text) ==
    /\ error_message_displayed' = (error_message_displayed \/ binT[t].shown)
    /\ binIo' = [binIo EXCEPT !.outcomes = Append(@, Outcome(t, "raise", text))]
    /\ binT' = [binT EXCEPT ![t].pc = "idle"]
    /\ UNCHANGED <<git_path, binCalls, binWorld, notBin>>

bin_too_old_dialog(t) ==
    /\ binT[t].pc = "too_old_dialog"
    /\ ErrorMessage(t, GIT_TOO_OLD_MSG, "too_old_raise")

bin_too_old_raise(t) ==
    /\ binT[t].pc = "too_old_raise"
    /\ RaiseValueError(t, "Git binary too old.")

\* if not git_path: (line 423)
bin_final_check(t) ==
    /\ binT[t].pc = "final_check"
    /\ binT' = [binT EXCEPT ![t].pc = IF ~Truthy(git_path) THEN "not_found_dialog"
                                      ELSE "return"]
    /\ UNCHANGED <<git_path, error_message_displayed, binIo, binCalls, binWorld, notBin>>

bin_not_found_dialog(t) ==
    /\ binT[t].pc = "not_found_dialog"
    /\ ErrorMessage(t, GIT_NOT_FOUND_MSG, "not_found_raise")

bin_not_found_raise(t) ==
    /\ binT[t].pc = "not_found_raise"
    /\ RaiseValueError(t, "Git binary not found.")

\* return git_path
bin_return(t) ==
    /\ binT[t].pc = "return"
    /\ binIo' = [binIo EXCEPT !.outcomes = Append(@, Outcome(t, "return", git_path))]
    /\ binT' = [binT EXCEPT ![t].pc = "idle"]
    /\ UNCHANGED <<git_path, error_message_displayed, binCalls, binWorld, notBin>>

git_binary_path(t) ==
    \/ bin_check(t)
    \/ bin_setting(t)
    \/ bin_which(t)
    \/ bin_probe(t)
    \/ bin_version(t)
    \/ bin_too_old_dialog(t)
    \/ bin_too_old_raise(t)
    \/ bin_final_check(t)
    \/ bin_not_found_dialog(t)
    \/ bin_not_found_raise(t)
    \/ bin_return(t)

\* Calls of git_binary_path made one after the other, from either thread.
BinaryNext ==
    \/ \E t \in Threads : bin_call_in_turn(t)
    \/ \E t \in Threads : git_binary_path(t)

\* The module is loaded: git_path = None, error_message_displayed = False.
\* The settings and the binaries on the machine may change between calls.
BinInit ==
    /\ git_path = None
    /\ error_message_displayed = FALSE
    /\ binT = [t \in Threads |-> BinLocals0]
    /\ binIo = BinIo0
    /\ binCalls = 0
    /\ binWorld = [settings |-> BinSettings, which |-> WhichResults, outputs |-> VersionOutputs]

InitBinary == DrainIdle /\ DecIdle /\ GitIdle /\ CalIdle /\ BinInit /\ RepoIdle /\ CmdIdle

SpecBinary == InitBinary /\ [][BinaryNext]_vars

(***************************************************************************)
(* Properties of git_binary_path                                           *)
(***************************************************************************)
BinOutcomes == binIo.outcomes
BinAllIdle == \A t \in Threads : binT[t].pc = "idle"
BinFailed(i) == BinOutcomes[i].kind = "raise"

\* C14: whatever calls were made and however they failed, the error dialog
\* was shown at most once; it was shown by the first failing call, and the
\* failing calls after it raised without a dialog.
C14_DialogAtMostOnce ==
    /\ Len(binIo.dialogs) <= 1
    /\ (\E i \in 1..Len(BinOutcomes) : BinFailed(i)) => Len(binIo.dialogs) = 1
    /\ error_message_displayed <=>
           (\E i \in 1..Len(BinOutcomes) : BinFailed(i))

\* C14's case: a call that found the binary too old, then one that found
\* none, and one dialog.
C14_Witness ==
    /\ Len(BinOutcomes) >= 2
    /\ BinOutcomes[1].value = "Git binary too old."
    /\ BinOutcomes[2].value = "Git binary not found."
    /\ binIo.dialogs = <<GIT_TOO_OLD_MSG>>

\* C15: a binary whose version is below the minimum makes the call raise
\* with the global git_path reset; after every failed call git_path is None
\* and the next call resolves again (reads the setting) instead of returning
\* a rejected path.
C15_FailedResolutionNotCached ==
    /\ \A t \in Threads :
        binT[t].pc \in {"too_old_dialog", "too_old_raise"} =>
            /\ VersionLess(binT[t].version, MIN_GIT_VERSION)
            /\ git_path = None
    /\ (BinAllIdle /\ BinOutcomes # <<>> /\ BinFailed(Len(BinOutcomes))) =>
           git_path = None
    /\ \A i \in 1..(Len(BinOutcomes) - 1) :
           BinFailed(i) => BinOutcomes[i + 1].read_setting
    /\ \A i \in 1..Len(BinOutcomes) :
           BinFailed(i) => BinOutcomes[i].value
                               \in {"Git binary too old.", "Git binary not found."}

\* C15's case: the first call found the binary too old, the second resolved
\* again and returned a path.
C15_Witness ==
    /\ Len(BinOutcomes) >= 2
    /\ BinOutcomes[1].value = "Git binary too old."
    /\ BinOutcomes[2].kind = "return" /\ BinOutcomes[2].probed

\* C16: once a call has returned a path, every later call returns that path
\* and has neither probed a version nor read the setting nor searched PATH.
C16_ResolvedPathReused ==
    \A i \in 1..Len(BinOutcomes) : \A j \in (i + 1)..Len(BinOutcomes) :
        BinOutcomes[i].kind = "return" =>
            /\ BinOutcomes[j].kind = "return"
            /\ BinOutcomes[j].value = BinOutcomes[i].value
            /\ ~BinOutcomes[j].probed
            /\ ~BinOutcomes[j].read_setting
            /\ ~BinOutcomes[j].searched_path

\* C16's case: a failed call, a call that resolved the binary on PATH, and a
\* call from the other thread that returned the same path.
C16_Witness ==
    /\ Len(BinOutcomes) = 3
    /\ BinFailed(1)
    /\ BinOutcomes[2].kind = "return" /\ BinOutcomes[2].searched_path
    /\ BinOutcomes[3].kind = "return"
    /\ BinOutcomes[3].thread # BinOutcomes[2].thread

(***************************************************************************)
(* search_for_git, search_for_git_toplevel, paths_upwards                  *)
(***************************************************************************)
\* A path is the sequence of its components after the root: <<"/", "a", "b">>
\* is /a/b, <<"/">> the root; no path (None) is the empty sequence.
Root == <<"/">>
NoPath == <<>>
Path(names) == Root \o names

\* /x/l is a symbolic link to /a/b; every other directory is what its path says.
LinkAt == Path(<<"x", "l">>)
LinkTarget == Path(<<"a", "b">>)
StartsWith(path, prefix) == Len(prefix) <= Len(path) /\ SubSeq(path, 1, Len(prefix)) = prefix

\* util.resolve_path: the path with its symbolic links resolved
resolve_path(path) ==
    IF StartsWith(path, LinkAt)
    THEN LinkTarget \o SubSeq(path, Len(LinkAt) + 1, Len(path))
    ELSE path

\* A comparison of the two paths as text.
samefile_by_name(a, b) == a = b

\* os.path.samefile
samefile(a, b) == resolve_path(a) = resolve_path(b)

\* The directories that may hold a `.git` entry, and the folders a search
\* starts at.
EntryDirs == {Root, Path(<<"a">>), Path(<<"a", "b">>), Path(<<"a", "b", "c">>), Path(<<"x">>)}
StartFolders == EntryDirs \cup {LinkAt, LinkAt \o <<"c">>}
Homes == {Path(<<"a">>), Path(<<"a", "b">>), Path(<<"home", "u">>)}

\* What os.stat(<dir>/.git) finds: nothing (OSError), a file, a directory with
\* or without HEAD; "raises" is a probe that fails with another exception.
EntryKinds == {"missing", "file", "dir_with_HEAD", "dir_without_HEAD", "raises"}

\* os.path.split
split(path) ==
    IF Len(path) <= 1 THEN [head |-> Root, tail |-> ""]
    ELSE [head |-> SubSeq(path, 1, Len(path) - 1), tail |-> path[Len(path)]]

\* A walk that goes on to the root from every start.
paths_upwards_to_root(path) ==
    [i \in 1..Len(path) |-> SubSeq(path, 1, Len(path) - i + 1)]

\* utils.paths_upwards: the paths it yields, in order
RECURSIVE paths_upwards(_)
paths_upwards(path) ==
    LET s == split(path)
    IN <<path>> \o (IF s.tail = "" \/ s.head = Root THEN <<>> ELSE paths_upwards(s.head))

\* An is_git_directory that takes every directory named .git for a repository.
is_git_directory_any(files, folder) ==
    LET st == files.dot_git[resolve_path(folder)]
    IN IF st = "raises" THEN "raises"
       ELSE IF st = "missing" THEN "False"
       ELSE "True"

\* is_git_directory(os.path.join(folder, ".git")): "True", "False", or
\* "raises" for an exception it does not catch
is_git_directory(files, folder) ==
    LET st == files.dot_git[resolve_path(folder)]
    IN IF st = "raises" THEN "raises"
       ELSE IF st = "missing" THEN "False"
       ELSE IF st = "file" THEN "True"
       ELSE IF st = "dir_with_HEAD" THEN "True"
       ELSE "False"

\* __search_for_git over the paths still to visit: the folder found, NoPath
\* for None, <<"raises">> for an exception
RECURSIVE search_upwards(_, _)
search_upwards(files, paths) ==
    IF paths = <<>> THEN NoPath
    ELSE LET p == Head(paths)
             ok == is_git_directory(files, p)
         IN IF ok = "raises" THEN <<"raises">>
            ELSE IF ok = "True" THEN p
            ELSE IF p = files.home THEN NoPath
            ELSE search_upwards(files, Tail(paths))

\* The folders __search_for_git probes (calls is_git_directory for), in order.
RECURSIVE probed_upwards(_, _)
probed_upwards(files, paths) ==
    IF paths = <<>> THEN <<>>
    ELSE LET p == Head(paths)
             ok == is_git_directory(files, p)
         IN IF ok = "raises" \/ ok = "True" \/ p = files.home THEN <<p>>
            ELSE <<p>> \o probed_upwards(files, Tail(paths))

\* search_for_git: try: return __search_for_git(folder) except Exception: return None
search_for_git(files, folder) ==
    LET found == search_upwards(files, paths_upwards(folder))
    IN IF found = <<"raises">> THEN NoPath ELSE found

search_for_git_toplevel(files, start_folder) ==
    LET real_start_folder == resolve_path(start_folder)
        real_repo_path == search_for_git(files, real_start_folder)
        user_repo_path == search_for_git(files, start_folder)
    IN IF real_start_folder = start_folder THEN real_repo_path
       ELSE IF real_repo_path = NoPath THEN NoPath
       ELSE IF user_repo_path # NoPath /\ samefile(real_repo_path, user_repo_path)
            THEN user_repo_path
       ELSE real_repo_path

\* The folders search_for_git_toplevel calls search_for_git with, in order:
\* the resolved one, and the literal one when it differs and the resolved
\* one led to a repository.
searched_from(files, start_folder) ==
    LET real_start_folder == resolve_path(start_folder)
        real_repo_path == search_for_git(files, real_start_folder)
    IN IF real_start_folder = start_folder THEN <<real_start_folder>>
       ELSE IF real_repo_path = NoPath THEN <<real_start_folder>>
       ELSE <<real_start_folder, start_folder>>

\* The filesystems of a search: every `.git` entry of every kind.
SearchFiles ==
    [dot_git : [EntryDirs -> EntryKinds], home : Homes, git_file : {<<>>}]

SearchInit ==
    /\ fs \in SearchFiles
    /\ repo_paths = <<>>
    /\ git_dirs = <<>>
    /\ lookups = <<>>

Lookup(op, arg, result, probes) ==
    [op |-> op, arg |-> arg, result |-> result, probes |-> probes]

CallSearchForGit ==
    /\ lookups = <<>>
    /\ \E folder \in StartFolders :
        lookups' = <<Lookup("search_for_git", folder, search_for_git(fs, folder),
                            probed_upwards(fs, paths_upwards(folder)))>>
    /\ UNCHANGED <<fs, repo_paths, git_dirs, notRepo>>

CallSearchForGitToplevel ==
    /\ lookups = <<>>
    /\ \E folder \in StartFolders :
        lookups' = <<Lookup("search_for_git_toplevel", folder,
                            search_for_git_toplevel(fs, folder),
                            searched_from(fs, folder))>>
    /\ UNCHANGED <<fs, repo_paths, git_dirs, notRepo>>

SearchNext ==
    \/ CallSearchForGit
    \/ CallSearchForGitToplevel

InitSearch == DrainIdle /\ DecIdle /\ GitIdle /\ CalIdle /\ BinIdle /\ SearchInit /\ CmdIdle

SpecSearch == InitSearch /\ [][SearchNext]_vars

\* The folders the walk from a start folder visits, nearest first: the start
\* folder and its ancestors below the root, up to and including HOME.
Ancestors(folder) == [i \in 1..Len(folder) |-> SubSeq(folder, 1, Len(folder) - i + 1)]
Visited(folder) ==
    {i \in 1..Len(folder) :
        /\ i > 1 => Ancestors(folder)[i] # Root
        /\ \A j \in 1..(i - 1) : Ancestors(folder)[j] # fs.home}
EntryOf(folder) == fs.dot_git[resolve_path(folder)]
ValidEntry(folder) == EntryOf(folder) \in {"dir_with_HEAD", "file"}

\* C17: search_for_git(start) is the nearest folder on the walk from start
\* whose `.git` is a directory that holds HEAD or an entry that is no
\* directory; a `.git` directory without HEAD or no `.git` lets the walk go
\* on with the parent; with no valid entry on the walk (or a probe that
\* raises before one is found) the result is None.
C17_NearestValidGitEntry ==
    \A n \in 1..Len(lookups) :
        lookups[n].op = "search_for_git" =>
            LET start == lookups[n].arg
                walk == Ancestors(start)
                hits == {i \in Visited(start) :
                            /\ ValidEntry(walk[i])
                            /\ \A j \in 1..(i - 1) :
                                   EntryOf(walk[j]) \in {"missing", "dir_without_HEAD"}}
            IN /\ hits # {} => \A i \in hits : lookups[n].result = walk[i]
               /\ hits = {} => lookups[n].result = NoPath

\* C17's case: from /a/b/c, with no `.git` in /a/b/c, a `.git` directory
\* without HEAD in /a/b and a valid one in /a, the result is /a.
C17_Witness ==
    /\ lookups # <<>>
    /\ lookups[1].op = "search_for_git"
    /\ lookups[1].arg = Path(<<"a", "b", "c">>)
    /\ fs.dot_git[Path(<<"a", "b", "c">>)] = "missing"
    /\ fs.dot_git[Path(<<"a", "b">>)] = "dir_without_HEAD"
    /\ fs.dot_git[Path(<<"a">>)] = "dir_with_HEAD"
    /\ lookups[1].result = Path(<<"a">>)

(***************************************************************************)
(* _GitCommand._find_git_toplevel and the cache repo_paths                 *)
(***************************************************************************)
LookupFolders == {Path(<<"a", "b", "c">>), LinkAt \o <<"c">>, Path(<<"x">>)}

\* The filesystems of the cached lookups: a `.git` entry is a repository's
\* or is not there.
ToplevelFiles ==
    [dot_git : [EntryDirs -> {"missing", "dir_with_HEAD"}],
     home : {Path(<<"home", "u">>)}, git_file : {<<>>}]

ToplevelInit ==
    /\ fs \in ToplevelFiles
    /\ repo_paths = <<>>
    /\ git_dirs = <<>>
    /\ lookups = <<>>

\* A _find_git_toplevel that stores nothing.
StoreRepoPathNever(cache, folder, repo_path) == cache

\* if repo_path: repo_paths[folder] = repo_path
StoreRepoPath(cache, folder, repo_path) ==
    IF repo_path # NoPath THEN (folder :> repo_path) @@ cache ELSE cache

\* try: return repo_paths[folder]  except KeyError: repo_path = search_for_git_toplevel(folder) ...
find_git_toplevel ==
    /\ Len(lookups) < MaxLookups
    /\ \E folder \in LookupFolders :
        IF folder \in DOMAIN repo_paths
        THEN /\ lookups' = Append(lookups, Lookup("_find_git_toplevel", folder,
                                                  repo_paths[folder], 0))
             /\ UNCHANGED repo_paths
        ELSE LET repo_path == search_for_git_toplevel(fs, folder)
             IN /\ repo_paths' = StoreRepoPath(repo_paths, folder, repo_path)
                /\ lookups' = Append(lookups, Lookup("_find_git_toplevel", folder,
                                                     repo_path, 1))
    /\ UNCHANGED <<fs, git_dirs, notRepo>>

\* Between two lookups a repository is created in a folder (git init).
git_init ==
    /\ Len(lookups) < MaxLookups
    /\ \E dir \in EntryDirs :
        /\ fs.dot_git[dir] = "missing"
        /\ fs' = [fs EXCEPT !.dot_git[dir] = "dir_with_HEAD"]
    /\ UNCHANGED <<repo_paths, git_dirs, lookups, notRepo>>

ToplevelNext ==
    \/ find_git_toplevel
    \/ git_init

InitToplevel == DrainIdle /\ DecIdle /\ GitIdle /\ CalIdle /\ BinIdle /\ ToplevelInit /\ CmdIdle

SpecToplevel == InitToplevel /\ [][ToplevelNext]_vars

SameFolder(i, j) == lookups[i].arg = lookups[j].arg

\* C18 as stated: a later lookup of a folder returns what the first returned
\* and probes nothing, whatever the first returned.
C18_EveryLookupCached ==
    \A i \in 1..Len(lookups) : \A j \in (i + 1)..Len(lookups) :
        SameFolder(i, j) =>
            /\ lookups[j].result = lookups[i].result
            /\ lookups[j].probes = 0

\* C18, amended: when a lookup of a folder has found a repository, every
\* later lookup of that folder returns the same repository and probes
\* nothing; a lookup that found none is not stored, and the next lookup of
\* that folder calls search_for_git_toplevel again.
C18_FoundRepositoryCached ==
    \A i \in 1..Len(lookups) : \A j \in (i + 1)..Len(lookups) :
        SameFolder(i, j) =>
            /\ lookups[i].result # NoPath =>
                   /\ lookups[j].result = lookups[i].result
                   /\ lookups[j].probes = 0
            /\ (\A k \in 1..(j - 1) : SameFolder(k, j) => lookups[k].result = NoPath) =>
                   lookups[j].probes = 1

\* C18's case: the first lookup from /x/l/c found /a, a repository was then
\* created nearer, in /a/b, and the second lookup still returned /a without
\* a probe.
C18_Witness ==
    /\ Len(lookups) >= 2
    /\ lookups[1].arg = LinkAt \o <<"c">> /\ lookups[2].arg = LinkAt \o <<"c">>
    /\ lookups[1].result = Path(<<"a">>) /\ lookups[1].probes = 1
    /\ fs.dot_git[Path(<<"a", "b">>)] = "dir_with_HEAD"
    /\ lookups[2].result = Path(<<"a">>) /\ lookups[2].probes = 0

(***************************************************************************)
(* _GitCommand.git_dir and the cache git_dirs                              *)
(***************************************************************************)
\* Text is a sequence of characters.
GitdirPrefix == <<"g", "i", "t", "d", "i", "r", ":", " ">>
DotGit == <<".", "g", "i", "t">>
Whitespace == {" ", "\n", "\t"}

\* The repository roots /r and /s.
Repos == {<<"/", "r">>, <<"/", "s">>}

\* What a `.git` file may hold: a relative target, an absolute one between
\* blanks, one with a blank inside, and texts that do not begin with the
\* prefix.
RelativeTarget == <<".", ".", "/", "m">>
GitFileContents ==
    { GitdirPrefix \o RelativeTarget \o <<"\n">>,
      GitdirPrefix \o <<" ", "/", "w", " ", "\n">>,
      GitdirPrefix \o <<"/", "m", " ", "w", "\n">>,
      <<"g", "i", "t", "d", "i", "r", ":", "/", "w">>,
      <<" ">> \o GitdirPrefix \o <<"/", "w">>,
      <<>> }

\* <repo>/.git: a directory, a regular file, or a file open() fails on.
GitEntries ==
    {[kind |-> "dir", content |-> <<>>], [kind |-> "unreadable", content |-> <<>>]}
    \cup {[kind |-> "file", content |-> c] : c \in GitFileContents}

\* os.path.join
join(a, b) == IF b # <<>> /\ b[1] = "/" THEN b ELSE a \o <<"/">> \o b

\* str.startswith
startswith(text, prefix) ==
    Len(prefix) <= Len(text) /\ SubSeq(text, 1, Len(prefix)) = prefix

\* str.strip
RECURSIVE lstrip(_)
lstrip(text) ==
    IF text # <<>> /\ Head(text) \in Whitespace THEN lstrip(Tail(text)) ELSE text
RECURSIVE rstrip(_)
rstrip(text) ==
    IF text # <<>> /\ text[Len(text)] \in Whitespace
    THEN rstrip(SubSeq(text, 1, Len(text) - 1)) ELSE text
strip(text) == rstrip(lstrip(text))

\* gitdir = os.path.join(repo_path, ".git"); if os.path.isfile(gitdir): ...
\* content = f.read(); if content.startswith("gitdir: "): gitdir = content[8:].strip()
gitdir_of(repo_path, entry) ==
    IF entry.kind = "file" /\ startswith(entry.content, GitdirPrefix)
    THEN strip(Drop(entry.content, 8))
    ELSE join(repo_path, DotGit)

GitDirFiles ==
    [dot_git : {<<>>}, home : {NoPath}, git_file : [Repos -> GitEntries]]

GitDirInit ==
    /\ fs \in GitDirFiles
    /\ repo_paths = <<>>
    /\ git_dirs = <<>>
    /\ lookups = <<>>

\* try: return git_dirs[repo_path]  except KeyError: ... git_dirs[repo_path] = gitdir
\* `probes` counts the isfile test and the open of the file.
git_dir ==
    /\ Len(lookups) < MaxLookups
    /\ \E repo_path \in Repos :
        LET entry == fs.git_file[repo_path]
            call == [repo_path |-> repo_path, entry |-> entry]
        IN IF repo_path \in DOMAIN git_dirs
           THEN /\ lookups' = Append(lookups, Lookup("git_dir", call, git_dirs[repo_path], 0))
                /\ UNCHANGED git_dirs
           ELSE LET gitdir == gitdir_of(repo_path, entry)
                IN /\ git_dirs' = (repo_path :> gitdir) @@ git_dirs
                   /\ lookups' = Append(lookups,
                          Lookup("git_dir", call, gitdir,
                                 IF entry.kind = "dir" THEN 1 ELSE 2))
    /\ UNCHANGED <<fs, repo_paths, notRepo>>

\* Between two calls the `.git` file of a repository is written anew.
rewrite_git_file ==
    /\ Len(lookups) < MaxLookups
    /\ \E repo_path \in Repos :
        LET entry == [kind |-> "file", content |-> GitdirPrefix \o <<"/", "n">>]
        IN /\ fs.git_file[repo_path] # entry
           /\ fs' = [fs EXCEPT !.git_file[repo_path] = entry]
    /\ UNCHANGED <<repo_paths, git_dirs, lookups, notRepo>>

GitDirNext ==
    \/ git_dir
    \/ rewrite_git_file

InitGitDir == DrainIdle /\ DecIdle /\ GitIdle /\ CalIdle /\ BinIdle /\ GitDirInit /\ CmdIdle

SpecGitDir == InitGitDir /\ [][GitDirNext]_vars

FirstCallFor(n) == \A k \in 1..(n - 1) : lookups[k].arg.repo_path # lookups[n].arg.repo_path
HasTarget(entry) == entry.kind = "file" /\ startswith(entry.content, GitdirPrefix)
Target(entry) == strip(SubSeq(entry.content, Len(GitdirPrefix) + 1, Len(entry.content)))
GitDirCached ==
    \A i \in 1..Len(lookups) : \A j \in (i + 1)..Len(lookups) :
        lookups[i].arg.repo_path = lookups[j].arg.repo_path =>
            /\ lookups[j].result = lookups[i].result
            /\ lookups[j].probes = 0

\* C19: the first git_dir of a repository root whose `.git` is a file that
\* begins with "gitdir: " is the trimmed remainder of the file, resolved
\* relative to the repository root, and <repo root>/.git in every other
\* case; later calls return the stored result and read nothing.
C19_GitDirResolved ==
    /\ \A n \in 1..Len(lookups) :
        FirstCallFor(n) =>
            LET repo == lookups[n].arg.repo_path
                entry == lookups[n].arg.entry
            IN lookups[n].result =
                   IF HasTarget(entry) THEN join(repo, Target(entry))
                   ELSE join(repo, DotGit)
    /\ GitDirCached

\* What git_dir does return: the trimmed remainder as it stands in the file,
\* not joined to the repository root.
C19_GitDirAsWritten ==
    /\ \A n \in 1..Len(lookups) :
        FirstCallFor(n) =>
            LET repo == lookups[n].arg.repo_path
                entry == lookups[n].arg.entry
            IN lookups[n].result =
                   IF HasTarget(entry) THEN Target(entry)
                   ELSE join(repo, DotGit)
    /\ GitDirCached

\* The case of C19_GitDirAsWritten: a relative target, returned again by a
\* second call after the file was rewritten.
C19_AsWrittenWitness ==
    /\ Len(lookups) >= 2
    /\ lookups[1].arg.repo_path = lookups[2].arg.repo_path
    /\ lookups[1].result = RelativeTarget
    /\ lookups[2].arg.entry # lookups[1].arg.entry
    /\ lookups[2].result = RelativeTarget /\ lookups[2].probes = 0

(***************************************************************************)
(* Handle mode                                                             *)
(***************************************************************************)
HandedOver == inp.just_the_proc /\ g # <<>> /\ g.popen # <<>>

\* C20: with just_the_proc true, git() returns the process right after
\* spawning it: it has written nothing to its stdin, read nothing, closed
\* and waited for nothing, decoded nothing, checked no exit code, and has
\* made no timing report and written no footer or output line to the panel.
C20_HandleModeHandsOver ==
    HandedOver =>
        /\ gpc = "done"
        /\ g.result = ReturnProc
        /\ g.proc = <<>>
        /\ g.yields = <<>> /\ g.child_stdout = <<>> /\ g.child_stderr = <<>>
        /\ g.stdout = NoneVal /\ g.stderr = NoneVal
        /\ g.locale = "" /\ g.returncode = 0 /\ g.setup_user = 0
        /\ g.log_git = <<>>
        /\ \A i \in 1..Len(g.panel) : g.panel[i].kind = "command"

\* A process handed over by a call that was given stdin and mirrors to the
\* panel.
C20_Witness ==
    /\ HandedOver
    /\ g.result = ReturnProc
    /\ inp.stdin # Absent
    /\ g.show_panel
    /\ g.panel # <<>>

(***************************************************************************)
(* communicate_and_log and the child's stdin pipe                          *)
(***************************************************************************)
\* What the child does, step by step: write a line to stdout or stderr, or
\* ("stdin") read its input up to end-of-file.
ReadsStdin(q) == {i \in 1..Len(q) : q[i] = "stdin"}
ChildScripts ==
    {q \in SeqsUpTo(Streams \cup {"stdin"}, MaxWrites - 1) : Cardinality(ReadsStdin(q)) <= 1}

\* communicate_and_log(proc, stdin, log) is called with stdin None or with
\* up to MaxInput chunks of bytes; git() has made all three pipes.
StdinInit ==
    /\ script \in ChildScripts
    /\ written = [s \in Streams |-> 0]
    /\ childPc = "run"
    /\ pipe = [s \in Streams |-> <<>>]
    /\ future = [s \in Streams |-> "not_started"]
    /\ held = [s \in Streams |-> Line(s, 0)]
    /\ container = <<>>
    /\ pc = "not_started"
    /\ delay = 1
    /\ yielded = <<>>
    /\ yfIdx = 0
    /\ procClosed = FALSE
    /\ sleeps = Sleeps0
    /\ calPc = "write_stdin"
    /\ calStdin \in {None, "bytes"}
    /\ stdinClosed = FALSE
    /\ pipesClosed = FALSE
    /\ stdinLeft \in (IF calStdin = None THEN {0} ELSE 0..MaxInput)
    /\ stdinPipe = 0

\* proc.stdin.write(stdin); proc.stdin.flush(): the next chunk goes into the
\* pipe; the write blocks while the pipe is full.
cal_stdin_write_chunk ==
    /\ calPc = "write_stdin"
    /\ calStdin # None
    /\ stdinLeft > 0
    /\ childPc = "run"
    /\ stdinPipe < PipeCap
    /\ stdinLeft' = stdinLeft - 1
    /\ stdinPipe' = stdinPipe + 1
    /\ UNCHANGED <<drainVars, calPc, calStdin, stdinClosed, pipesClosed, notCal>>

\* The write end of the child's stdin is closed.
StdinWriteEndClosed == stdinClosed \/ pipesClosed \/ procClosed

\* The child reads a chunk of its input.
ChildReadStdin ==
    /\ childPc = "run"
    /\ script # <<>>
    /\ Head(script) = "stdin"
    /\ stdinPipe > 0
    /\ stdinPipe' = stdinPipe - 1
    /\ UNCHANGED <<drainVars, calPc, calStdin, stdinClosed, pipesClosed, stdinLeft, notCal>>

\* The child's read returns end-of-file: the pipe is empty and its write end
\* closed.
ChildStdinEof ==
    /\ childPc = "run"
    /\ script # <<>>
    /\ Head(script) = "stdin"
    /\ stdinPipe = 0
    /\ StdinWriteEndClosed
    /\ script' = Tail(script)
    /\ UNCHANGED <<written, childPc, pipe, future, held, container, pc, delay,
                   yielded, yfIdx, procClosed, sleeps, calVars, notCal>>

StdinNext ==
    \/ ChildWrite
    \/ ChildExit
    \/ ChildReadStdin
    \/ ChildStdinEof
    \/ \E s \in Streams : read_linewise(s)
    \/ stream_stdout_and_err
    \/ cal_stdin_none
    \/ cal_stdin_write_chunk
    \/ cal_stdin_write
    \/ cal_stdin_broken_pipe
    \/ cal_start_drain
    \/ cal_return

InitStdin == StdinInit /\ DecIdle /\ GitIdle /\ BinIdle /\ RepoIdle /\ CmdIdle

\* The operating system schedules the child and every thread, and a call that
\* can go on does.
StdinFairness ==
    /\ WF_vars(ChildWrite)
    /\ WF_vars(ChildExit)
    /\ WF_vars(ChildReadStdin)
    /\ WF_vars(ChildStdinEof)
    /\ \A s \in Streams : WF_vars(read_linewise(s))
    /\ WF_vars(stream_stdout_and_err)
    /\ WF_vars(cal_stdin_none)
    /\ WF_vars(cal_stdin_write_chunk)
    /\ WF_vars(cal_stdin_write \/ cal_stdin_broken_pipe)
    /\ WF_vars(cal_start_drain)
    /\ WF_vars(cal_return)

SpecStdinFair == InitStdin /\ [][StdinNext]_vars /\ StdinFairness

\* The child writes more than a pipe holds to one stream before it reads its
\* input.
WritesBeforeReading(q) ==
    \E i \in ReadsStdin(q), s \in Streams :
        Cardinality({k \in 1..(i - 1) : q[k] = s}) > PipeCap

\* C21: a call of communicate_and_log with more input than the stdin pipe
\* holds, for a child that writes more than a pipe holds before it reads its
\* input, completes under fair scheduling.
C21_LargeInputCompletes ==
    (stdinLeft > PipeCap /\ WritesBeforeReading(script)) => <>CalLeft

\* The state C21's call ends in: communicate_and_log blocked in its write to
\* a full stdin pipe, the child blocked in its write to a full output pipe
\* that no reader has been started for.
C21_Deadlocked ==
    /\ calPc = "write_stdin" /\ stdinLeft > 0 /\ stdinPipe = PipeCap
    /\ childPc = "run" /\ script # <<>> /\ Head(script) \in Streams
    /\ Len(pipe[Head(script)]) = PipeCap
    /\ \A s \in Streams : future[s] = "not_started"

\* C22: the drain loop of communicate_and_log never waits for ever: once the
\* loop has started, the call returns (or raises), with input and without.
C22_DrainLoopEnds == (calPc = "drain") ~> CalLeft

\* C22 for the calls that were given input, whose stdin pipe is closed before
\* the loop starts: there the statement holds.
C22_DrainLoopEndsWithInput == (calPc = "drain" /\ stdinClosed) ~> CalLeft

\* The state a call with stdin None ends in: the loop waits for the readers,
\* the readers for the child's end-of-file, the child for the end of an input
\* whose pipe nobody closes.
C22_WaitingForStdinEof ==
    /\ calPc = "drain" /\ calStdin = None /\ ~StdinWriteEndClosed
    /\ childPc = "run" /\ script # <<>> /\ Head(script) = "stdin"
    /\ pc \in {"while_out", "while_err", "pop"}
    /\ \A s \in Streams : pipe[s] = <<>> /\ future[s] = "running"
    /\ container = <<>>

(***************************************************************************)
(* The end of the drain and the readers' exceptions                        *)
(***************************************************************************)
Finished(s) == future[s] \in {"done", "raised"}
InLoop == pc \in {"while_out", "while_err", "pop"}

\* The drain goes on while a reader runs, and the exception of a reader
\* reaches the consumer only when both readers have finished, the stdout
\* reader's before the stderr reader's.
ExceptionAfterBothFinished ==
    /\ [][(InLoop /\ pc' \notin {"while_out", "while_err", "pop"})
            => (\A s \in Streams : Finished(s))]_vars
    /\ [](pc = "raised" => \A s \in Streams : Finished(s))
    /\ [][(pc # "raised" /\ pc' = "raised")
            => IF future["stdout"] = "raised" THEN pc = "result_out"
               ELSE pc = "result_err" /\ future["stderr"] = "raised"]_vars

\* C23 as stated: stream_stdout_and_err keeps draining until both readers
\* have finished and the queue is empty, whether it ends or raises; a
\* reader's exception reaches the consumer only after both readers have
\* finished, and it is the stdout reader's when both raised.
C23_DrainsUntilQueueEmpty ==
    /\ ExceptionAfterBothFinished
    /\ [](pc = "done" => (\A s \in Streams : Finished(s)) /\ yfIdx = Len(container))
    /\ [](pc = "raised" => container = <<>>)

\* What does hold of C23: a drain that ends without an exception has yielded
\* the whole queue; when a reader raised, the exception reaches the consumer
\* after both readers have finished (the stdout reader's first), whatever is
\* still in the queue.
C23_DrainsUntilReadersFinished ==
    /\ ExceptionAfterBothFinished
    /\ [](pc = "done" => (\A s \in Streams : Finished(s)) /\ yfIdx = Len(container))

\* Both readers raised, the consumer got the exception, and a line was still
\* in the queue.
C23_LinesLeftBehind ==
    /\ pc = "raised"
    /\ future["stdout"] = "raised" /\ future["stderr"] = "raised"
    /\ container # <<>>

(***************************************************************************)
(* git_binary_path called from several threads at once                     *)
(***************************************************************************)
\* The settings and the machine stay as they are while the calls run: one
\* value of the setting, one answer of shutil.which, one `git --version`.
FixedBinWorlds ==
    {[settings |-> {s}, which |-> {w}, outputs |-> {v}] :
        s \in BinSettings, w \in WhichResults, v \in VersionOutputs}

\* Every thread has entered git_binary_path before any resolution completed.
BinConcurrentInit ==
    /\ git_path = None
    /\ error_message_displayed = FALSE
    /\ binT = [t \in Threads |-> [BinLocals0 EXCEPT !.pc = "check"]]
    /\ binIo = BinIo0
    /\ binCalls = Cardinality(Threads)
    /\ binWorld \in FixedBinWorlds

BinaryConcurrentNext ==
    \/ \E t \in Threads : git_binary_path(t)

InitBinaryConcurrent ==
    DrainIdle /\ DecIdle /\ GitIdle /\ CalIdle /\ BinConcurrentInit /\ RepoIdle /\ CmdIdle

SpecBinaryConcurrent == InitBinaryConcurrent /\ [][BinaryConcurrentNext]_vars

\* The path the resolution gives in a fixed world, and whether its version
\* check succeeds.
TheOne(S) == CHOOSE x \in S : TRUE
ResolvedPath ==
    LET from_setting == FromSetting(TheOne(binWorld.settings))
    IN IF Truthy(from_setting) THEN from_setting ELSE TheOne(binWorld.which)
VersionCheckSucceeds ==
    /\ Truthy(ResolvedPath)
    /\ git_version_from_path(TheOne(binWorld.outputs)) # NoVersion
    /\ ~VersionLess(git_version_from_path(TheOne(binWorld.outputs)), MIN_GIT_VERSION)

\* C24: of the calls that entered git_binary_path together, every one that
\* returns a value returns the same path, and none returns a path whose
\* version check has not succeeded.
C24_ConcurrentPopulationIdempotent ==
    /\ \A i, j \in 1..Len(BinOutcomes) :
        (BinOutcomes[i].kind = "return" /\ BinOutcomes[j].kind = "return") =>
            BinOutcomes[i].value = BinOutcomes[j].value
    /\ \A i \in 1..Len(BinOutcomes) :
        BinOutcomes[i].kind = "return" =>
            /\ VersionCheckSucceeds
            /\ BinOutcomes[i].value = ResolvedPath

\* One thread returned the path the other had just written to git_path, and
\* the other then found the binary too old and raised.
C24_RejectedPathReturned ==
    /\ Len(BinOutcomes) = 2
    /\ BinOutcomes[1].kind = "return" /\ ~BinOutcomes[1].probed
    /\ BinOutcomes[2].value = "Git binary too old."
    /\ git_path = None

(***************************************************************************)
(* The consumer's sleeps, over more than one drain                         *)
(***************************************************************************)
\* stream_stdout_and_err is called again, for another process: a new deque,
\* new readers, and delay = chain([1, 2, 4, 8, 15, 30], repeat(50)) anew.
stream_stdout_and_err_again ==
    /\ pc \in {"done", "raised"}
    /\ sleeps.drain < MaxDrains
    /\ script' \in SeqsUpTo(Streams, MaxWrites - 2)
    /\ written' = [s \in Streams |-> 0]
    /\ childPc' = "run"
    /\ pipe' = [s \in Streams |-> <<>>]
    /\ future' = [s \in Streams |-> "running"]
    /\ held' = [s \in Streams |-> Line(s, 0)]
    /\ container' = <<>>
    /\ pc' = "while_out"
    /\ delay' = 1
    /\ yielded' = <<>>
    /\ yfIdx' = 0
    /\ procClosed' = FALSE
    /\ sleeps' = [Sleeps0 EXCEPT !.drain = sleeps.drain + 1]
    /\ UNCHANGED notDrain

\* The first call, for a child that writes up to MaxWrites - 2 lines.
DrainAgainInit ==
    /\ DrainInit
    /\ Len(script) <= MaxWrites - 2

DrainAgainNext ==
    \/ ChildWrite
    \/ ChildExit
    \/ \E s \in Streams : read_linewise(s)
    \/ \E s \in Streams : read_linewise_raise(s)
    \/ stream_stdout_and_err
    \/ stream_stdout_and_err_again

InitDrainAgain == DrainAgainInit /\ DecIdle /\ GitIdle /\ CalIdle /\ BinIdle /\ RepoIdle /\ CmdIdle

SpecDrainAgain == InitDrainAgain /\ [][DrainAgainNext]_vars

FoundQueueEmpty == pc = "pop" /\ container = <<>>
ClaimedDelay(k) ==
    CASE k = 1 -> 1 [] k = 2 -> 2 [] k = 3 -> 4 [] k = 4 -> 8 [] k = 5 -> 15
      [] k = 6 -> 30 [] OTHER -> 50

\* C25: the k-th time the consumer of one drain finds the queue empty it
\* sleeps 1, 2, 4, 8, 15, 30 ms for k = 1..6 and 50 ms afterwards; the
\* sleeps never get shorter and never exceed 50 ms, no empty queue is retried
\* without a sleep, and a new drain starts again with 1 ms.
C25_BackoffSchedule ==
    /\ [][(FoundQueueEmpty /\ pc' # pc) =>
            /\ sleeps'.tick # sleeps.tick
            /\ sleeps'.count = (IF sleeps.count < MaxEmpties THEN sleeps.count + 1
                                ELSE sleeps.count)
            /\ sleeps'.last = ClaimedDelay(sleeps'.count)
            /\ sleeps'.last >= sleeps.last
            /\ sleeps'.last > 0 /\ sleeps'.last <= 50
            /\ pc' = "while_out"]_vars
    /\ [][sleeps'.tick # sleeps.tick => (FoundQueueEmpty \/ sleeps'.drain # sleeps.drain)]_vars
    /\ [][sleeps'.drain # sleeps.drain =>
            /\ sleeps'.count = 0 /\ sleeps'.last = 0
            /\ delay' = 1]_vars
    /\ [][(sleeps'.count = 1 /\ sleeps.count = 0) => sleeps'.last = 1]_vars

\* C25's case: the second drain has slept 1 ms and then 2 ms.
C25_Witness ==
    /\ sleeps.drain = 2
    /\ sleeps.count = 2
    /\ sleeps.last = 2

\* The first drain has slept more than six times: the last sleep was 50 ms.
C25_SteadyWitness ==
    /\ sleeps.drain = 1
    /\ sleeps.count = MaxEmpties
    /\ sleeps.last = 50

(***************************************************************************)
(* The unset author identity                                               *)
(***************************************************************************)
\* git() is at `if throw_on_error and not p.returncode == 0` with a stderr
\* that holds "*** Please tell me who you are."
FailsWithIdentityMarker ==
    gpc = "exit_code" /\ ShouldThrow /\ Contains(g.stderr.v, IdentityMarker)
IsGitSavvyError(l) == l.result.kind = "raise" /\ l.result.exc = "GitSavvyError"

\* C26: an invocation that fails with a non-zero exit, throw_on_error true
\* and the identity marker in its stderr schedules gs_setup_user once, raises
\* GitSavvyError, and that error does not ask for the error panel; nothing
\* else schedules gs_setup_user.
C26_IdentityMarkerSchedulesSetup ==
    /\ [][FailsWithIdentityMarker =>
            /\ g'.setup_user = g.setup_user + 1
            /\ IsGitSavvyError(g')
            /\ ~g'.result.show_panel]_vars
    /\ [][g'.setup_user # g.setup_user => FailsWithIdentityMarker]_vars
    /\ [](g.setup_user <= 1)

\* C26 for the invocations whose stdout and stderr ensure_decoded can decode:
\* there the statement holds.
C26_IdentityMarkerWithDecodableOutput ==
    /\ [][(FailsWithIdentityMarker
            /\ EnsureDecoded(g.stdout, g.locale, inp.settings.fallback_encoding).ok
            /\ EnsureDecoded(g.stderr, g.locale, inp.settings.fallback_encoding).ok) =>
            /\ g'.setup_user = g.setup_user + 1
            /\ IsGitSavvyError(g')
            /\ ~g'.result.show_panel]_vars
    /\ [][g'.setup_user # g.setup_user => FailsWithIdentityMarker]_vars
    /\ [](g.setup_user <= 1)

\* The marker was in stderr, show_panel_on_error was asked for, and git()
\* raised the error without the panel and scheduled gs_setup_user.
C26_SetupScheduled ==
    /\ gpc = "done" /\ g.setup_user = 1
    /\ inp.show_panel_on_error /\ ~g.show_panel
    /\ IsGitSavvyError(g) /\ ~g.result.show_panel

\* The marker was in stderr and git() left with the LookupError of an unknown
\* fallback_encoding: no GitSavvyError, no gs_setup_user.
C26_LookupErrorInstead ==
    /\ gpc = "done" /\ g.setup_user = 0
    /\ inp.throw_on_error /\ g.returncode # 0
    /\ Contains(g.child_stderr, IdentityMarker)
    /\ g.result.kind = "raise" /\ g.result.exc = "LookupError"

(***************************************************************************)
(* search_for_git_toplevel: the literal and the resolved start folder      *)
(***************************************************************************)
\* What the claim gives as the result for a start folder that differs from
\* its resolved path.
PreferredRepo(real_repo_path, user_repo_path) ==
    IF /\ real_repo_path # NoPath /\ user_repo_path # NoPath
       /\ resolve_path(real_repo_path) = resolve_path(user_repo_path)
    THEN user_repo_path
    ELSE real_repo_path

ToplevelResultAsClaimed(n) ==
    LET start == lookups[n].arg
        real == resolve_path(start)
    IN lookups[n].result =
           IF real = start THEN search_for_git(fs, real)
           ELSE PreferredRepo(search_for_git(fs, real), search_for_git(fs, start))

\* C27 as stated: a start folder that is its own resolved path gives the
\* search result from it; one that differs has both paths searched, and the
\* repository found from the literal path is the result only if it is the
\* directory found from the resolved path, the resolved path's answer
\* otherwise.
C27_BothPathsSearched ==
    \A n \in 1..Len(lookups) :
        lookups[n].op = "search_for_git_toplevel" =>
            LET start == lookups[n].arg
                real == resolve_path(start)
            IN /\ ToplevelResultAsClaimed(n)
               /\ lookups[n].probes = IF real = start THEN <<real>> ELSE <<real, start>>

\* C27, amended: when the paths differ the resolved path is searched, and
\* the literal path only if the resolved one led to a repository; when it
\* led to none the result is None without a second search.  The results
\* are as stated.
C27_LiteralSearchedWhenResolvedFound ==
    \A n \in 1..Len(lookups) :
        lookups[n].op = "search_for_git_toplevel" =>
            LET start == lookups[n].arg
                real == resolve_path(start)
            IN /\ ToplevelResultAsClaimed(n)
               /\ lookups[n].probes =
                      IF real = start \/ search_for_git(fs, real) = NoPath
                      THEN <<real>> ELSE <<real, start>>

\* C27's case: from /x/l/c, a link into /a/b/c, the repository is /a/b by
\* either path, and the result is the literal /x/l.
C27_Witness ==
    /\ lookups # <<>>
    /\ lookups[1].op = "search_for_git_toplevel"
    /\ lookups[1].arg = LinkAt \o <<"c">>
    /\ lookups[1].probes = <<LinkTarget \o <<"c">>, LinkAt \o <<"c">>>>
    /\ search_for_git(fs, LinkTarget \o <<"c">>) = LinkTarget
    /\ lookups[1].result = LinkAt

\* The two searches found different directories (/a and /x): the resolved
\* path's answer is the result.
C27_ResolvedPreferredWitness ==
    /\ lookups # <<>>
    /\ lookups[1].op = "search_for_git_toplevel"
    /\ lookups[1].arg = LinkAt \o <<"c">>
    /\ search_for_git(fs, LinkAt \o <<"c">>) = Path(<<"x">>)
    /\ lookups[1].result = Path(<<"a">>)

(***************************************************************************)
(* The extent of the upward walk                                           *)
(***************************************************************************)
\* The walk from `start` that probes walk[1..last] at most: it ends at the
\* first folder whose probe finds a valid entry or raises, else at `last`.
WalkUpTo(n, last) ==
    LET start == lookups[n].arg
        walk == Ancestors(start)
        ends == {i \in 1..last : ValidEntry(walk[i]) \/ EntryOf(walk[i]) = "raises"}
        stop == IF ends = {} THEN last ELSE CHOOSE i \in ends : \A j \in ends : i <= j
    IN /\ lookups[n].probes = SubSeq(walk, 1, stop)
       /\ lookups[n].result = IF ValidEntry(walk[stop]) THEN walk[stop] ELSE NoPath

\* The nearest of HOME and `limit` on the walk from the start folder.
BoundaryOf(n, limit) ==
    LET walk == Ancestors(lookups[n].arg)
        at == {i \in 1..limit : walk[i] = fs.home} \cup {limit}
    IN CHOOSE i \in at : \A j \in at : i <= j

C28_HomeWitness ==
    /\ lookups # <<>>
    /\ lookups[1].op = "search_for_git"
    /\ lookups[1].arg = Path(<<"a", "b", "c">>)
    /\ fs.home = Path(<<"a", "b">>)
    /\ fs.dot_git[Path(<<"a">>)] = "dir_with_HEAD"
    /\ lookups[1].probes = <<Path(<<"a", "b", "c">>), Path(<<"a", "b">>)>>
    /\ lookups[1].result = NoPath

(***************************************************************************)
(* get_repo_path when no repository root resolves                          *)
(***************************************************************************)

\* git() has asked for self.repo_path and find_repo_path found nothing.
NoRepoResolved == g.repo_lookups > 0 /\ ~Truthy(g.find_repo_path)
WindowExists == g.current_window # Absent
WindowHasFolders == WindowExists /\ g.current_window[1] # <<>>

\* C29: when no repository root resolves, get_repo_path returns no path: it
\* raises RuntimeError without a window and ValueError("Not a git
\* repository.") with one; gs_offer_init is enqueued exactly when the window
\* exists and has open folders; git() raises a GitSavvyError for either,
\* with the panel suppressed when the window does not exist.
C29_NoRepoRaises ==
    NoRepoResolved =>
        /\ g.working_dir = None /\ g.popen = <<>> /\ gpc = "done"
        /\ g.repo = IF WindowExists THEN "ValueError" ELSE "RuntimeError"
        /\ g.worker \in {<<>>, <<"gs_offer_init">>}
        /\ (g.worker = <<"gs_offer_init">>) <=> WindowHasFolders
        /\ RaisedGitSavvyError
        /\ g.result.message =
               Message(IF WindowExists THEN "Not a git repository."
                       ELSE "Window does not exist.", <<>>)
        /\ ~WindowExists => ~g.result.show_panel

\* C29's cases: the offer is made from a window with folders; no window.
C29_Witness ==
    NoRepoResolved /\ WindowHasFolders /\ g.worker = <<"gs_offer_init">>
C29_NoWindowWitness ==
    NoRepoResolved /\ ~WindowExists /\ inp.show_panel_on_error /\ RaisedGitSavvyError

(***************************************************************************)
(* Errors raised inside the try statement of git()                         *)
(***************************************************************************)

\* subprocess.Popen, communicate_and_log or p.communicate has raised.
RaisedInTry == g # <<>> /\ g.error # ""

\* C30: an error raised while spawning the process or communicating with it
\* is raised again by git() as a GitSavvyError whose message holds the
\* assembled command line, the working directory, the error and its stack
\* trace, whatever throw_on_error and just_the_proc are; git() returns
\* nothing then.
C30_TryErrorsReraised ==
    RaisedInTry =>
        /\ gpc = "done"
        /\ RaisedGitSavvyError
        /\ g.result.value = NoneVal
        /\ g.result.message.args =
               <<pretty_git_command(Tail(g.command)), Lit(g.working_dir),
                 Lit(g.error), Lit("traceback.format_exc()")>>
        /\ g.result.cmd = g.command

\* C30's cases: communicating failed for a caller that does not want errors
\* thrown, after a line had reached the panel; spawning failed in handle mode.
C30_Witness ==
    /\ RaisedInTry /\ g.popen # <<>>
    /\ ~inp.throw_on_error /\ g.show_panel /\ g.yields # <<>>
    /\ RaisedGitSavvyError
C30_SpawnWitness ==
    /\ RaisedInTry /\ g.popen = <<>>
    /\ inp.just_the_proc /\ ~inp.throw_on_error
    /\ RaisedGitSavvyError

(***************************************************************************)
(* The failures of the binary resolution                                   *)
(***************************************************************************)
RaisingNotFound(t) == binT[t].pc \in {"not_found_dialog", "not_found_raise"}
RaisingTooOld(t) == binT[t].pc \in {"too_old_dialog", "too_old_raise"}
Unparseable(t) == binT[t].probed /\ binT[t].version = NoVersion

\* C31: the resolution fails in three distinguishable ways: the "not found"
\* error and message are given only when no executable resolved, the "too
\* old" error and message only when the parsed version is below the minimum,
\* and a `--version` output that does not match has an outcome that is
\* neither of the two.
C31_FailuresDistinguished ==
    \A t \in Threads :
        /\ RaisingNotFound(t) => ~binT[t].probed
        /\ RaisingTooOld(t) =>
               /\ binT[t].version # NoVersion
               /\ VersionLess(binT[t].version, MIN_GIT_VERSION)
        /\ Unparseable(t) => ~RaisingNotFound(t) /\ ~RaisingTooOld(t)

\* What the code does: "too old" is told apart from the other two, and an
\* executable whose version text does not match is reported as not found.
C31_TooOldDistinguished ==
    \A t \in Threads :
        /\ RaisingTooOld(t) <=>
               /\ binT[t].pc \notin {"idle", "check", "setting", "which", "probe", "version"}
               /\ binT[t].probed
               /\ binT[t].version # NoVersion
               /\ VersionLess(binT[t].version, MIN_GIT_VERSION)
        /\ (Unparseable(t) /\ binT[t].pc \notin {"version", "final_check", "idle"}) =>
               RaisingNotFound(t)

\* An executable resolved, its `--version` output did not match, and the
\* call is about to raise ValueError("Git binary not found.").
C31_UnparseableReportedAsNotFound ==
    \E t \in Threads :
        /\ binT[t].pc = "not_found_raise"
        /\ Unparseable(t)
        /\ binT[t].stdout # <<>>
        /\ binIo.dialogs = <<GIT_NOT_FOUND_MSG>>

(***************************************************************************)
(* The version of the binary: its text, its triple, the minimum            *)
(***************************************************************************)
\* str() of a natural number
DigitChar == <<"0", "1", "2", "3", "4", "5", "6", "7", "8", "9">>
RECURSIVE Decimal(_)
Decimal(n) ==
    IF n < 10 THEN <<DigitChar[n + 1]>>
    ELSE Decimal(n \div 10) \o <<DigitChar[(n % 10) + 1]>>
\* "git version X.Y.Z"
VersionText(v) ==
    GitVersionPrefix \o Decimal(v[1]) \o <<".">> \o Decimal(v[2]) \o <<".">> \o Decimal(v[3])
BeginsWith(text, start) ==
    /\ Len(start) <= Len(text)
    /\ SubSeq(text, 1, Len(start)) = start
    /\ Len(text) > Len(start) => text[Len(start) + 1] \notin DOMAIN DigitValue
\* (X, Y, Z) >= (2, 18, 0), spelled out
AtLeastMinimum(v) ==
    \/ v[1] > 2
    \/ v[1] = 2 /\ v[2] > 18
    \/ v[1] = 2 /\ v[2] = 18 /\ v[3] >= 0
PastVersionCheck(t) ==
    binT[t].probed /\ binT[t].pc \notin {"version", "idle"}

\* C32: a `--version` text that begins "git version X.Y.Z" parses to the
\* triple of integers (X, Y, Z), "git version 2.30.1" to (2, 30, 1), and any
\* other text to None; a binary whose version parsed is accepted exactly
\* when its triple is at least (2, 18, 0) in the order of integer triples:
\* 2.9.5 is rejected, 2.18.0, 2.30.1 and 3.0.0 are accepted.
C32_VersionParsedAndCompared ==
    \A t \in Threads : binT[t].probed =>
        LET v == binT[t].version
            stdout == binT[t].stdout
        IN /\ v # NoVersion => BeginsWith(stdout, VersionText(v))
           /\ BeginsWith(stdout, VersionText(<<2, 30, 1>>)) => v = <<2, 30, 1>>
           /\ BeginsWith(stdout, VersionText(<<2, 9, 5>>)) => v = <<2, 9, 5>>
           /\ BeginsWith(stdout, VersionText(<<2, 18, 0>>)) => v = <<2, 18, 0>>
           /\ BeginsWith(stdout, VersionText(<<3, 0, 0>>)) => v = <<3, 0, 0>>
           /\ (v # NoVersion /\ PastVersionCheck(t)) =>
                  /\ AtLeastMinimum(v) <=> git_path # None
                  /\ AtLeastMinimum(v) <=> binT[t].pc \in {"final_check", "return"}
                  /\ ~AtLeastMinimum(v) <=> RaisingTooOld(t)

\* C32's cases: 2.30.1 is accepted, 2.9.5 is rejected.
C32_Witness ==
    \E t \in Threads :
        /\ binT[t].pc = "return" /\ binT[t].probed
        /\ binT[t].version = <<2, 30, 1>>
C32_RejectedWitness ==
    \E t \in Threads :
        /\ binT[t].pc = "too_old_raise"
        /\ binT[t].version = <<2, 9, 5>>

(***************************************************************************)
(* utils.kill_proc while the readers of the subprocess run                 *)
(***************************************************************************)
\* sys.platform, and whether the subprocess leads a process group of its own
\* (git() spawns it without a new session, another caller may do otherwise).
KillPlatforms == {"linux", "win32"}
Kill0(platform, leader) ==
    [platform |-> platform, leader |-> leader, pc |-> "idle", sent |-> <<>>]

\* kill_proc acts on the subprocess, whose readers the drain has started.
notKill == <<decVars, gitVars, calVars, binVars, repoVars, ihVars, commitVars, pushVars, cacheVars>>

\* A drain is under way and kill_proc has not been called yet.
KillInit ==
    /\ DrainInit
    /\ Len(script) <= MaxWrites - 2
    /\ kill \in {Kill0(platform, leader) : platform \in KillPlatforms, leader \in BOOLEAN}

\* if sys.platform == "win32": subprocess.Popen("taskkill /PID %d /T /F")
\* else: os.killpg(proc.pid, signal.SIGTERM); proc.terminate()
\* os.killpg raises ProcessLookupError when no process group has the id
\* proc.pid; what was sent takes effect after kill_proc has returned.
kill_proc ==
    /\ kill.pc = "idle"
    /\ childPc = "run"
    /\ IF kill.platform = "win32"
       THEN /\ kill' = [kill EXCEPT !.pc = "returned", !.sent = <<"taskkill /T /F">>]
            /\ childPc' = "signalled"
       ELSE IF kill.leader
       THEN /\ kill' = [kill EXCEPT !.pc = "returned", !.sent = <<"killpg", "terminate">>]
            /\ childPc' = "signalled"
       ELSE /\ kill' = [kill EXCEPT !.pc = "raised"]
            /\ UNCHANGED childPc
    /\ UNCHANGED <<script, written, pipe, future, held, container, pc, delay,
                   yielded, yfIdx, procClosed, sleeps, notKill>>

\* The subprocess dies of what it was sent and its pipe ends are closed.
ChildTerminated ==
    /\ childPc = "signalled"
    /\ childPc' = "exited"
    /\ UNCHANGED <<script, written, pipe, future, held, container, pc, delay,
                   yielded, yfIdx, procClosed, sleeps, notDrain>>

KillNext ==
    \/ ChildWrite
    \/ ChildExit
    \/ \E s \in Streams : read_linewise(s)
    \/ \E s \in Streams : read_linewise_raise(s)
    \/ stream_stdout_and_err
    \/ kill_proc
    \/ ChildTerminated

InitKill ==
    KillInit /\ DecIdle /\ GitIdle /\ CalIdle /\ BinIdle /\ RepoIdle /\ IhIdle /\ CommitIdle
        /\ PushIdle /\ CacheIdle

SpecKill == InitKill /\ [][KillNext]_vars

KillProcReturned == kill # <<>> /\ kill.pc = "returned"
KillProcRaised == kill # <<>> /\ kill.pc = "raised"

\* C33: kill_proc, called for a running subprocess, kills the process group
\* of the subprocess and returns, and when it has returned the subprocess
\* is gone and neither of its readers is running.
C33_CancellationComplete ==
    KillProcReturned =>
        /\ childPc = "exited"
        /\ \A s \in Streams : ~running(s)

\* What the code does: having returned, kill_proc has sent the termination
\* to the subprocess and its descendants (taskkill /T, or killpg on a group
\* the subprocess leads); the subprocess is gone or about to be.
C33_TerminationSent ==
    KillProcReturned =>
        /\ childPc \in {"signalled", "exited"}
        /\ kill.sent = IF kill.platform = "win32" THEN <<"taskkill /T /F">>
                       ELSE <<"killpg", "terminate">>

\* kill_proc has returned, the subprocess is still there and a reader runs.
C33_ReadersRunningAfterKill ==
    /\ KillProcReturned
    /\ childPc = "signalled"
    /\ \E s \in Streams : running(s)
\* kill_proc has raised and the subprocess goes on.
C33_NotAGroupLeader ==
    /\ KillProcRaised
    /\ childPc = "run" /\ script # <<>>

(***************************************************************************)
(* communicate_and_log and Popen.communicate                               *)
(***************************************************************************)
RECURSIVE Concatenated(_)
Concatenated(lines) ==
    IF lines = <<>> THEN <<>> ELSE Head(lines) \o Concatenated(Tail(lines))
\* git() is right behind `stdout, stderr = ...` of either path.
JustCommunicated == g # <<>> /\ gpc = "decode" /\ CommunicationCompleted

\* C34: whenever communicating returns, git() holds the same stdout and
\* stderr whether it went through communicate_and_log or p.communicate: the
\* bytes the child wrote to each stream; in the mirrored path stdout is the
\* concatenation of the Out lines in the order they were yielded, stderr
\* that of the Err lines, and the log callback was called once for each
\* yielded line, in that order.
C34_MirroredReturnsWhatPlainReturns ==
    JustCommunicated =>
        /\ g.stdout = BytesVal(g.child_stdout)
        /\ g.stderr = BytesVal(g.child_stderr)
        /\ g.show_panel =>
               /\ g.stdout.v = Concatenated(LinesTagged(g.yields, "Out"))
               /\ g.stderr.v = Concatenated(LinesTagged(g.yields, "Err"))
               /\ SubSeq(g.panel, 2, Len(g.panel) - 1)
                      = [i \in 1..Len(g.yields) |-> PanelLine(g.yields[i].line)]
               /\ Len(g.yields) = Len(readlines(g.child_stdout))
                                      + Len(readlines(g.child_stderr))

\* C34's case: the mirrored path, two lines on each stream, stderr yielded
\* first, the last line of stdout without a newline.
C34_Witness ==
    /\ JustCommunicated /\ g.show_panel
    /\ Len(g.yields) = 4
    /\ g.yields[1].tag = "Err" /\ g.yields[2].tag = "Out"
    /\ g.child_stdout = <<65, Newline, 66>>
\* The plain path for the same child.
C34_PlainWitness ==
    /\ JustCommunicated /\ ~g.show_panel
    /\ g.child_stdout = <<65, Newline, 66>>
    /\ g.child_stderr = <<67, Newline, 68, Newline>>

(***************************************************************************)
(* WithInputHandlers.run_, make_on_done_fn                                 *)
(***************************************************************************)
\* ordered_positional_args(self.run): the parameters of run without a
\* default value, in the order of the signature.
Params == <<"a", "b", "c">>
ParamNames == {Params[i] : i \in 1..Len(Params)}

\* What a handler does with its continuation `done`: call it inside the
\* handler call, with or without keyword arguments (here c=...); keep it
\* and call it later; both; never call it.
HandlerModes == {"sync", "sync_kw", "later", "both", "never"}
\* the keyword arguments the handler passes to done
KwargsOf(mode) == IF mode = "sync_kw" THEN ("c" :> "kwargs") ELSE EmptyMap
\* the handler calls done before it returns
CallsInside(mode) == mode \in {"sync", "sync_kw", "both"}
\* the handler holds done to call it after it has returned
KeepsKont(mode) == mode \in {"later", "both"}

\* The args of a dispatch: None, or a dict of the arguments given.
ArgsNone == [is_none |-> TRUE, dict |-> EmptyMap]
ArgsDict(dict) == [is_none |-> FALSE, dict |-> dict]
ArgDicts == {ArgsDict([n \in S |-> "caller"]) : S \in SUBSET ParamNames}

\* A continuation that dispatches the command again whenever it is called.
RedispatchesAlways(sync_mode) == TRUE

\* lambda: None if sync_mode else run_command(self, args)
Redispatches(sync_mode) == ~sync_mode

\* on_done(value, **kwargs): on_done.called = True; args[name] = value;
\* args.update(kwargs); kont()
on_done(args, name, value, kwargs, sync_mode) ==
    LET stored == kwargs @@ (name :> value) @@ args
    IN [args |-> stored,
        dispatched |-> IF Redispatches(sync_mode) THEN <<ArgsDict(stored)>> ELSE <<>>]

\* A run_ that goes on to the next argument whatever the handler did.
DoneCalledAlways(mode) == TRUE

\* done.called, when the handler has returned
DoneCalled(mode) == CallsInside(mode)

\* for name in ordered_positional_args(self.run): if name not in present and
\* name in self.defaults: ... self.defaults[name](self, args, done);
\* if not done.called: break     else: return super().run_(edit_token, args)
RECURSIVE for_names(_, _, _, _)
for_names(names, args, invoked, dispatched) ==
    IF names = <<>>
    THEN [args |-> args, invoked |-> invoked, dispatched |-> dispatched, body |-> TRUE]
    ELSE LET name == Head(names)
         IN IF name \notin DOMAIN args /\ name \in DOMAIN defaults
            THEN LET mode == defaults[name]
                     done == IF CallsInside(mode)
                             THEN on_done(args, name, "handler", KwargsOf(mode), TRUE)
                             ELSE [args |-> args, dispatched |-> <<>>]
                 IN IF DoneCalled(mode)
                    THEN for_names(Tail(names), done.args, Append(invoked, name),
                                   dispatched \o done.dispatched)
                    ELSE [args |-> done.args, invoked |-> Append(invoked, name),
                          dispatched |-> dispatched \o done.dispatched, body |-> FALSE]
            ELSE for_names(Tail(names), args, invoked, dispatched)

\* One dispatch of the command: WithInputHandlers.run_(edit_token, args)
run_ ==
    /\ dispatches # <<>>
    /\ Len(runs) < MaxRuns
    /\ LET given == Head(dispatches)
       IN IF DOMAIN defaults = {}
          THEN \* if not self.defaults: return super().run_(edit_token, args)
               /\ runs' = Append(runs, [given |-> given, args |-> given.dict, invoked |-> <<>>,
                                        dispatched |-> <<>>, body |-> TRUE])
               /\ dispatches' = Tail(dispatches)
               /\ UNCHANGED konts
          ELSE \* args = self.filter_args(args); if args is None: args = {}
               LET args == IF given.is_none THEN EmptyMap ELSE given.dict
                   r == for_names(Params, args, <<>>, <<>>)
                   n == Len(runs) + 1
               IN /\ runs' = Append(runs, [given |-> given, args |-> r.args,
                                           invoked |-> r.invoked,
                                           dispatched |-> r.dispatched, body |-> r.body])
                  /\ dispatches' = Tail(dispatches) \o r.dispatched
                  /\ konts' = konts \cup
                         {[name |-> r.invoked[i], args |-> r.args, run |-> n] :
                              i \in {j \in 1..Len(r.invoked) : KeepsKont(defaults[r.invoked[j]])}}
    /\ UNCHANGED <<defaults, kontCalls, kill, commitVars, pushVars, cacheVars, notCmd>>

\* A handler calls the continuation it holds, after its handler call and the
\* run_ that made it have returned: on_done stores the value in the args of
\* that run_ and kont finds sync_mode cleared.
on_done_later ==
    /\ Len(kontCalls) < MaxKontCalls
    /\ \E k \in konts :
        LET done == on_done(k.args, k.name, "later", EmptyMap, FALSE)
        IN /\ kontCalls' = Append(kontCalls, [name |-> k.name, run |-> k.run,
                                              before |-> k.args, args |-> done.args,
                                              dispatched |-> done.dispatched])
           /\ dispatches' = dispatches \o done.dispatched
           /\ konts' = (konts \ {k}) \cup {[k EXCEPT !.args = done.args]}
    /\ UNCHANGED <<defaults, runs, kill, commitVars, pushVars, cacheVars, notCmd>>

\* A command with any handlers, dispatched once with any args.
IhInit ==
    /\ defaults \in UNION {[S -> HandlerModes] : S \in SUBSET ParamNames}
    /\ dispatches \in {<<args>> : args \in ArgDicts \cup {ArgsNone}}
    /\ konts = {}
    /\ runs = <<>>
    /\ kontCalls = <<>>

IhNext ==
    \/ run_
    \/ on_done_later

InitInputHandlers ==
    DrainIdle /\ DecIdle /\ GitIdle /\ CalIdle /\ BinIdle /\ RepoIdle /\ KillIdle /\ IhInit
        /\ CommitIdle /\ PushIdle /\ CacheIdle

SpecInputHandlers == InitInputHandlers /\ [][IhNext]_vars

\* Position of a name in the signature of run
ParamIndex(name) == CHOOSE i \in 1..Len(Params) : Params[i] = name
HasHandlers == DOMAIN defaults # {}
ArgsGiven(r) == DOMAIN r.given.dict

\* C35: a run_ of a command with handlers runs the body only when every
\* argument that has a handler is in args; it invokes handlers in the order
\* of run's parameters, only for arguments that are not in args, and invokes
\* no handler after one that did not supply its value inside its call.
C35_BodyOnlyWhenHandledArgsPresent ==
    HasHandlers =>
        \A n \in 1..Len(runs) :
            LET r == runs[n]
            IN /\ r.body => \A name \in DOMAIN defaults : name \in DOMAIN r.args
               /\ \A i \in 1..Len(r.invoked) :
                    /\ r.invoked[i] \in DOMAIN defaults
                    /\ r.invoked[i] \notin ArgsGiven(r)
                    /\ \A j \in 1..(i - 1) :
                        /\ ParamIndex(r.invoked[j]) < ParamIndex(r.invoked[i])
                        /\ defaults[r.invoked[j]] \in {"sync", "sync_kw", "both"}
                        /\ r.invoked[i] \notin DOMAIN KwargsOf(defaults[r.invoked[j]])
               /\ ~r.body =>
                    /\ r.invoked # <<>>
                    /\ defaults[r.invoked[Len(r.invoked)]] \in {"later", "never"}

\* C35's cases: two handlers invoked in turn and the body run; a run_ that
\* stopped at the first of two missing arguments.
C35_Witness ==
    \E n \in 1..Len(runs) :
        /\ runs[n].body
        /\ runs[n].invoked = <<"a", "c">>
        /\ ArgsGiven(runs[n]) = {"b"}
C35_StoppedWitness ==
    \E n \in 1..Len(runs) :
        /\ ~runs[n].body
        /\ runs[n].invoked = <<"a">>
        /\ {"b", "c"} \subseteq DOMAIN defaults
        /\ runs[n].given = ArgsNone

\* The value on_done leaves in args[name] when the handler calls it inside
\* its call: the handler's value, unless its keyword arguments name the
\* argument too.
StoredInside(name) ==
    IF name \in DOMAIN KwargsOf(defaults[name]) THEN "kwargs" ELSE "handler"
\* A handler that never calls its continuation stands before an argument
\* that neither the caller nor a keyword argument supplies.
NeverSupplied ==
    /\ runs # <<>>
    /\ \E name \in DOMAIN defaults :
        /\ defaults[name] = "never"
        /\ name \notin ArgsGiven(runs[1])
        /\ \A m \in DOMAIN defaults : name \notin DOMAIN KwargsOf(defaults[m])

\* C36: a continuation called inside the handler call stores its value in
\* args, dispatches nothing, and the same run_ goes on (to the next argument
\* or the body); a continuation called later stores its value and dispatches
\* the command once, with the updated args, for every such call, and nothing
\* else dispatches the command; with a handler that never calls its
\* continuation the body is not run.
C36_SyncStoresLaterRedispatches ==
    HasHandlers =>
        /\ \A n \in 1..Len(runs) :
            LET r == runs[n]
            IN /\ r.dispatched = <<>>
               /\ \A i \in 1..Len(r.invoked) :
                    LET name == r.invoked[i]
                    IN /\ defaults[name] \in {"sync", "sync_kw", "both"} =>
                            /\ name \in DOMAIN r.args
                            /\ r.args[name] = StoredInside(name)
                            /\ i = Len(r.invoked) => r.body
                       /\ defaults[name] \in {"later", "never"} =>
                            /\ name \notin DOMAIN r.args
                            /\ i = Len(r.invoked) /\ ~r.body
        /\ \A k \in 1..Len(kontCalls) :
            LET c == kontCalls[k]
            IN /\ defaults[c.name] \in {"later", "both"}
               /\ c.args[c.name] = "later"
               /\ DOMAIN c.args = DOMAIN c.before \cup {c.name}
               /\ \A m \in DOMAIN c.before \ {c.name} : c.args[m] = c.before[m]
               /\ c.dispatched = <<ArgsDict(c.args)>>
        /\ Len(runs) + Len(dispatches) = 1 + Len(kontCalls)
        /\ NeverSupplied => \A n \in 1..Len(runs) : ~runs[n].body

\* C36's cases: the handler of `a` called its continuation later, the
\* command was dispatched again and ran its body; a handler called its
\* continuation inside its call and the first run_ ran the body.
C36_Witness ==
    /\ Len(runs) = 2 /\ Len(kontCalls) = 1
    /\ ~runs[1].body /\ runs[1].invoked = <<"a">>
    /\ runs[2].body /\ runs[2].given = ArgsDict(kontCalls[1].args)
C36_SyncWitness ==
    /\ Len(runs) = 1 /\ runs[1].body /\ runs[1].invoked = <<"b">>
    /\ defaults["b"] = "sync"
    /\ dispatches = <<>>

(***************************************************************************)
(* gs_commit_view_do_commit                                                *)
(***************************************************************************)
\* The commit view. Its settings outlive the command, so the is_commiting
\* flag may have been left set, for one by a run_impl that never came back.
CommitViews ==
    [ is_commiting : BOOLEAN, include_unstaged : BOOLEAN, amend : BOOLEAN,
      has_window : {TRUE}, text : {"message in the view"} ]
Cio0 == [git |-> <<>>, status |-> <<>>, closed |-> 0, refreshed |-> 0, ended |-> <<>>]
\* The message argument of the command: None, or a text.
CommitMessages == {None, "message given"}

CommitInit ==
    /\ view \in CommitViews
    /\ enqueued = <<>>
    /\ cpc = "idle"
    /\ cio = Cio0

\* def run(self, edit, message=None): enqueue_on_worker(self.run_impl, message)
gs_commit_view_do_commit_run ==
    /\ Len(enqueued) + Len(cio.ended) + (IF cpc = "idle" THEN 0 ELSE 1) < MaxCommits
    /\ \E message \in CommitMessages : enqueued' = Append(enqueued, message)
    /\ UNCHANGED <<view, cpc, cio, kill, ihVars, pushVars, cacheVars, notCmd>>

\* The user closes the view: self.view.window() is None from then on.
ViewClosedByUser ==
    /\ view.has_window
    /\ cpc = "idle"
    /\ view' = [view EXCEPT !.has_window = FALSE]
    /\ UNCHANGED <<enqueued, cpc, cio, kill, ihVars, pushVars, cacheVars, notCmd>>

\* A run_impl that does not look at the flag.
IsCommitingNever(settings) == FALSE

\* if settings.get("git_savvy.commit_view.is_commiting", False): return
IsCommiting(settings) == settings.is_commiting

\* self.git("commit", "-a" if ... else None, "--amend" if ... else None,
\*          "-F", "-", stdin=commit_message)
CommitCall(settings, commit_message) ==
    [args |-> <<"commit",
                IF settings.include_unstaged THEN "-a" ELSE None,
                IF settings.amend THEN "--amend" ELSE None,
                "-F", "-">>,
     stdin |-> commit_message]

\* run_impl up to the call of self.git: no window, or the flag is set, and
\* it returns; else it reads the message, sets the flag and calls git.
run_impl_start ==
    /\ cpc = "idle"
    /\ enqueued # <<>>
    /\ enqueued' = Tail(enqueued)
    /\ LET given == Head(enqueued)
           \* if commit_message is None: commit_message = extract_commit_message(self.view)
           commit_message == IF given = None THEN view.text ELSE given
       IN IF ~view.has_window
          THEN /\ cio' = [cio EXCEPT !.ended = Append(@, "no window")]
               /\ UNCHANGED <<view, cpc>>
          ELSE IF IsCommiting(view)
          THEN /\ cio' = [cio EXCEPT !.ended = Append(@, "is commiting")]
               /\ UNCHANGED <<view, cpc>>
          ELSE /\ view' = [view EXCEPT !.is_commiting = TRUE]
               /\ cio' = [cio EXCEPT !.status = Append(@, "Commiting..."),
                                     !.git = Append(@, CommitCall(view, commit_message))]
               /\ cpc' = "git"
    /\ UNCHANGED <<kill, ihVars, pushVars, cacheVars, notCmd>>

\* self.git(...) returns or raises; finally: the flag is cleared; after a
\* return: the status message, self.view.close(), the refresh.
run_impl_git ==
    /\ cpc = "git"
    /\ cpc' = "idle"
    /\ \E outcome \in {"returned", "raised"} :
        IF outcome = "raised"
        THEN /\ view' = [view EXCEPT !.is_commiting = FALSE]
             /\ cio' = [cio EXCEPT !.ended = Append(@, "raised")]
        ELSE /\ view' = [view EXCEPT !.is_commiting = FALSE, !.has_window = FALSE]
             /\ cio' = [cio EXCEPT !.status = Append(@, "Committed successfully."),
                                   !.closed = @ + 1, !.refreshed = @ + 1,
                                   !.ended = Append(@, "committed")]
    /\ UNCHANGED <<enqueued, kill, ihVars, pushVars, cacheVars, notCmd>>

CommitNext ==
    \/ gs_commit_view_do_commit_run
    \/ ViewClosedByUser
    \/ run_impl_start
    \/ run_impl_git

InitCommit ==
    DrainIdle /\ DecIdle /\ GitIdle /\ CalIdle /\ BinIdle /\ RepoIdle /\ KillIdle /\ IhIdle
        /\ CommitInit /\ PushIdle /\ CacheIdle

SpecCommit == InitCommit /\ [][CommitNext]_vars

CountOf(seq, x) == Cardinality({i \in 1..Len(seq) : seq[i] = x})
InCommitView == view # <<>>

\* C37: run_impl starts no commit when it finds the is_commiting flag set;
\* a run_impl that set the flag has cleared it when it ends, whether git
\* commit returned or raised; the view is closed by the command and
\* "Committed successfully." is reported once for every commit that
\* returned and never otherwise.
C37_CommitGuardedByFlag ==
    /\ [][(InCommitView /\ Len(cio'.git) > Len(cio.git)) => ~view.is_commiting]_vars
    /\ [](InCommitView =>
            /\ cpc = "git" => view.is_commiting
            /\ (cpc = "idle" /\ cio.git # <<>>) => ~view.is_commiting
            /\ cio.closed = CountOf(cio.ended, "committed")
            /\ CountOf(cio.status, "Committed successfully.") = CountOf(cio.ended, "committed")
            /\ Len(cio.git) = CountOf(cio.ended, "committed") + CountOf(cio.ended, "raised")
                                  + (IF cpc = "git" THEN 1 ELSE 0))

\* C37's cases: git commit raised and the flag is clear again, and the view
\* is still open; a run_impl found the flag set and committed nothing.
C37_Witness ==
    /\ InCommitView /\ cpc = "idle"
    /\ cio.ended = <<"raised">>
    /\ ~view.is_commiting /\ view.has_window /\ cio.closed = 0
C37_FlagSetWitness ==
    /\ InCommitView
    /\ cio.ended = <<"is commiting", "is commiting">>
    /\ cio.git = <<>> /\ view.is_commiting

(***************************************************************************)
(* PushBase.do_push, RemotesMixin.push                                     *)
(***************************************************************************)
\* The GitSavvy settings: confirm_force_push is not set, or set to a value.
SavvySettings ==
    { EmptyMap, "confirm_force_push" :> TRUE, "confirm_force_push" :> FALSE }
RemoteBranches == {None, "", "main"}
\* The arguments of a do_push call.
PushArgs ==
    [ remote : {"origin"}, branch : {"topic"}, force : BOOLEAN,
      force_with_lease : BOOLEAN, remote_branch : RemoteBranches,
      set_upstream : BOOLEAN ]
PushLog0 ==
    [calls |-> 0, dialogs |-> <<>>, git |-> <<>>, status |-> <<>>,
     refreshed |-> <<>>, ended |-> <<>>]
PushReturned == [pc |-> "idle"]

PushInit ==
    /\ pushCall = PushReturned
    /\ pushLog = PushLog0

\* A do_push that asks only before a push with --force.
DialogForForceOnly(settings, force, force_with_lease) ==
    IF Get(settings, "confirm_force_push", TRUE) /\ force THEN "--force" ELSE None

\* if self.savvy_settings.get("confirm_force_push", True):
\*     if force: ... CONFIRM_FORCE_PUSH.format("--force")
\*     elif force_with_lease: ... CONFIRM_FORCE_PUSH.format("--force-with-lease")
\* The flag the dialog names, None when do_push shows no dialog.
DialogFor(settings, force, force_with_lease) ==
    IF Get(settings, "confirm_force_push", TRUE)
    THEN IF force THEN "--force"
         ELSE IF force_with_lease THEN "--force-with-lease"
         ELSE None
    ELSE None

\* RemotesMixin.push: the arguments it hands to self.git.
push(remote, branch, force, force_with_lease, remote_branch, set_upstream) ==
    << "push",
       IF force THEN "--force" ELSE None,
       IF force_with_lease THEN "--force-with-lease" ELSE None,
       IF set_upstream THEN "--set-upstream" ELSE None,
       remote,
       IF ~Truthy(remote_branch) THEN <<branch>> ELSE <<branch, ":", remote_branch>> >>

\* do_push from the status message "Pushing ..." to the call of self.git.
StartPush(log, n, a) ==
    [log EXCEPT
        !.status = Append(@, <<"Pushing ", a.branch, " to ", a.remote, "...">>),
        !.git = Append(@, [call |-> n,
                           args |-> push(a.remote, a.branch, a.force, a.force_with_lease,
                                         a.remote_branch, a.set_upstream)])]

\* do_push is called: it shows the dialog, or goes on to the push.
do_push ==
    /\ pushCall.pc = "idle"
    /\ pushLog.calls < MaxPushes
    /\ \E a \in PushArgs, settings \in SavvySettings :
        LET n == pushLog.calls + 1
            flag == DialogFor(settings, a.force, a.force_with_lease)
            counted == [pushLog EXCEPT !.calls = n]
        IN IF flag # None
           THEN /\ pushCall' = [pc |-> "dialog", n |-> n, a |-> a, settings |-> settings]
                /\ pushLog' = [counted EXCEPT
                                 !.dialogs = Append(@, [call |-> n, flag |-> flag,
                                                        answer |-> None])]
           ELSE /\ pushCall' = [pc |-> "git", n |-> n, a |-> a, settings |-> settings]
                /\ pushLog' = StartPush(counted, n, a)
    /\ UNCHANGED <<kill, ihVars, commitVars, cacheVars, notCmd>>

\* sublime.ok_cancel_dialog returns: on False do_push returns, on True it
\* goes on to the push.
ok_cancel_dialog ==
    /\ pushCall.pc = "dialog"
    /\ \E ok \in BOOLEAN :
        LET answered == [pushLog EXCEPT
                            !.dialogs[Len(pushLog.dialogs)].answer = ok]
        IN IF ~ok
           THEN /\ pushCall' = PushReturned
                /\ pushLog' = [answered EXCEPT !.ended = Append(@, "cancelled")]
           ELSE /\ pushCall' = [pushCall EXCEPT !.pc = "git"]
                /\ pushLog' = StartPush(answered, pushCall.n, pushCall.a)
    /\ UNCHANGED <<kill, ihVars, commitVars, cacheVars, notCmd>>

\* self.push returns, and the end message and the refresh follow, or it
\* raises out of do_push.
do_push_git ==
    /\ pushCall.pc = "git"
    /\ pushCall' = PushReturned
    /\ \E outcome \in {"returned", "raised"} :
        IF outcome = "raised"
        THEN pushLog' = [pushLog EXCEPT !.ended = Append(@, "raised")]
        ELSE pushLog' = [pushLog EXCEPT !.status = Append(@, <<"Push complete.">>),
                                        !.refreshed = Append(@, pushCall.n),
                                        !.ended = Append(@, "pushed")]
    /\ UNCHANGED <<kill, ihVars, commitVars, cacheVars, notCmd>>

PushNext ==
    \/ do_push
    \/ ok_cancel_dialog
    \/ do_push_git

InitPush ==
    DrainIdle /\ DecIdle /\ GitIdle /\ CalIdle /\ BinIdle /\ RepoIdle /\ KillIdle /\ IhIdle
        /\ CommitIdle /\ PushInit /\ CacheIdle

SpecPush == InitPush /\ [][PushNext]_vars

InPush == pushLog # <<>>
Forced(gitCall) ==
    gitCall.args[2] = "--force" \/ gitCall.args[3] = "--force-with-lease"
DialogsOf(n) == {i \in 1..Len(pushLog.dialogs) : pushLog.dialogs[i].call = n}
Confirmed(n) == \E i \in DialogsOf(n) : pushLog.dialogs[i].answer = TRUE
Cancelled(n) == \E i \in DialogsOf(n) : pushLog.dialogs[i].answer = FALSE
ConfirmEnabled(settings) == Get(settings, "confirm_force_push", TRUE)

\* C38: with confirm_force_push enabled, a git push with --force or
\* --force-with-lease is run only by a do_push call whose dialog the user
\* confirmed; a do_push call whose dialog was cancelled runs no git push
\* and refreshes nothing; a do_push call with neither force flag shows no
\* dialog.
C38_ForcePushConfirmed ==
    /\ [][(InPush /\ Len(pushLog'.git) > Len(pushLog.git)) =>
            LET a == IF pushCall.pc = "dialog" THEN pushCall.a ELSE pushCall'.a
                settings == IF pushCall.pc = "dialog" THEN pushCall.settings
                            ELSE pushCall'.settings
                gitCall == pushLog'.git[Len(pushLog'.git)]
            IN /\ Forced(gitCall) <=> (a.force \/ a.force_with_lease)
               /\ (ConfirmEnabled(settings) /\ Forced(gitCall)) =>
                     /\ pushCall.pc = "dialog"
                     /\ \E i \in 1..Len(pushLog'.dialogs) :
                           /\ pushLog'.dialogs[i].call = gitCall.call
                           /\ pushLog'.dialogs[i].answer = TRUE]_vars
    /\ [](InPush =>
            /\ \A i \in 1..Len(pushLog.git) :
                  ~Cancelled(pushLog.git[i].call)
            /\ \A i \in 1..Len(pushLog.refreshed) :
                  ~Cancelled(pushLog.refreshed[i])
            /\ \A i \in 1..Len(pushLog.git) :
                  ~Forced(pushLog.git[i]) => DialogsOf(pushLog.git[i].call) = {}
            /\ (pushCall.pc = "dialog") =>
                  pushCall.a.force \/ pushCall.a.force_with_lease)

\* C38's cases: a confirmed push with --force-with-lease has been run and
\* the interfaces refreshed; a dialog was cancelled and nothing was pushed.
C38_Witness ==
    /\ InPush /\ pushCall.pc = "idle"
    /\ Len(pushLog.git) = 1
    /\ pushLog.git[1].args[2] = None /\ pushLog.git[1].args[3] = "--force-with-lease"
    /\ Confirmed(pushLog.git[1].call)
    /\ pushLog.refreshed = <<pushLog.git[1].call>>
C38_CancelledWitness ==
    /\ InPush /\ pushCall.pc = "idle"
    /\ pushLog.ended = <<"cancelled">>
    /\ pushLog.git = <<>> /\ pushLog.refreshed = <<>>

(***************************************************************************)
(* utils.Cache                                                             *)
(***************************************************************************)
\* The keys and values the callers use; one key more than the largest
\* maxsize, so that a full Cache can be written with a new key.
CacheKeys == 1..(MaxSize + 1)
CacheValues == {"x", "y"}
Entry(key, value) == [key |-> key, value |-> value]
KeysIn(items) == {items[i].key : i \in 1..Len(items)}
PositionOf(items, key) == CHOOSE i \in 1..Len(items) : items[i].key = key
CacheUsed0 == [clock |-> 0, last |-> [k \in CacheKeys |-> 0], op |-> <<>>]

\* def __init__(self, maxsize=128): assert maxsize > 0
CacheInit ==
    /\ \E maxsize \in 1..MaxSize : lru = [maxsize |-> maxsize, items |-> <<>>]
    /\ used = CacheUsed0

\* A move_to_end that leaves the entry where it is.
stay_in_place(items, key) == items

\* OrderedDict.move_to_end(key)
move_to_end(items, key) ==
    LET i == PositionOf(items, key)
    IN SubSeq(items, 1, i - 1) \o SubSeq(items, i + 1, Len(items)) \o <<items[i]>>

\* OrderedDict.__setitem__: a new key goes to the end, the value of a key
\* that is there is replaced where the key is.
dict_setitem(items, key, value) ==
    IF key \in KeysIn(items)
    THEN [items EXCEPT ![PositionOf(items, key)].value = value]
    ELSE Append(items, Entry(key, value))

\* OrderedDict.popitem(last=False)
popitem_first(items) == Tail(items)

\* The value of Cache.__setitem__(key, value) on the entries.
setitem(items, maxsize, key, value) ==
    LET moved == IF key \in KeysIn(items) THEN move_to_end(items, key) ELSE items
        stored == dict_setitem(moved, key, value)
    IN IF Len(stored) > maxsize THEN popitem_first(stored) ELSE stored

Use(op, key) ==
    [used EXCEPT !.clock = @ + 1, !.last[key] = used.clock + 1, !.op = <<op, key>>]

\* cache[key]: KeyError and nothing changes when the key is missing, else
\* the entry moves to the end and its value is returned.
Cache_getitem ==
    /\ used.clock < MaxUses
    /\ \E key \in CacheKeys :
        IF key \notin KeysIn(lru.items)
        THEN /\ used' = [used EXCEPT !.clock = @ + 1, !.op = <<"KeyError", key>>]
             /\ UNCHANGED lru
        ELSE /\ lru' = [lru EXCEPT !.items = move_to_end(@, key)]
             /\ used' = Use("get", key)
    /\ UNCHANGED <<kill, ihVars, commitVars, pushVars, notCmd>>

\* cache[key] = value
Cache_setitem ==
    /\ used.clock < MaxUses
    /\ \E key \in CacheKeys, value \in CacheValues :
        /\ lru' = [lru EXCEPT !.items = setitem(@, lru.maxsize, key, value)]
        /\ used' = Use("set", key)
    /\ UNCHANGED <<kill, ihVars, commitVars, pushVars, notCmd>>

CacheNext ==
    \/ Cache_getitem
    \/ Cache_setitem

InitCache ==
    DrainIdle /\ DecIdle /\ GitIdle /\ CalIdle /\ BinIdle /\ RepoIdle /\ KillIdle /\ IhIdle
        /\ CommitIdle /\ PushIdle /\ CacheInit

SpecCache == InitCache /\ [][CacheNext]_vars

InCache == lru # <<>>
\* The key in the Cache whose last read or write is the oldest.
LeastRecentlyUsed ==
    CHOOSE k \in KeysIn(lru.items) :
        \A other \in KeysIn(lru.items) : used.last[k] <= used.last[other]
WouldExceed(key) ==
    key \notin KeysIn(lru.items) /\ Len(lru.items) = lru.maxsize
ValueOf(items, key) == items[PositionOf(items, key)].value

\* C39: a Cache never holds more than maxsize entries; a write of a new
\* key into a full Cache evicts exactly one entry, the one whose last
\* successful read or write is the oldest, and never the key written; any
\* other write evicts nothing, and a read evicts nothing.
C39_LeastRecentlyUsedEvicted ==
    /\ [](InCache => Len(lru.items) <= lru.maxsize
                       /\ Cardinality(KeysIn(lru.items)) = Len(lru.items))
    /\ [][(InCache /\ used'.clock > used.clock) =>
            LET key == used'.op[2]
                evicted == KeysIn(lru.items) \ KeysIn(lru'.items)
            IN IF used'.op[1] = "set"
               THEN /\ key \in KeysIn(lru'.items)
                    /\ IF WouldExceed(key)
                       THEN evicted = {LeastRecentlyUsed}
                       ELSE evicted = {}
                    /\ KeysIn(lru'.items) = (KeysIn(lru.items) \ evicted) \cup {key}
               ELSE /\ evicted = {}
                    /\ KeysIn(lru'.items) = KeysIn(lru.items)]_vars

\* C39's case: the oldest entry was read, the Cache was full, a new key was
\* written, and the entry that went is the other one.
C39_Witness ==
    /\ InCache /\ lru.maxsize = 2
    /\ used.op = <<"set", 3>>
    /\ used.last[1] = 3 /\ used.last[2] = 2
    /\ KeysIn(lru.items) = {1, 3}
C39_RewriteWitness ==
    /\ InCache /\ lru.maxsize = 2
    /\ used.op = <<"set", 1>> /\ used.last[1] = 3 /\ used.last[2] = 2
    /\ KeysIn(lru.items) = {1, 2}
====
